---------------------------- MODULE Spec2Model ----------------------------
(***************************************************************************)
(* Model of the local financial analysis service of the transaction app   *)
(* (src/src/firebase/users.js, lines 560-1115): feature extraction,       *)
(* statistics, the exponential-smoothing forecaster, the regression       *)
(* (TensorFlow.js) step and the orchestrator analyzeFinances.             *)
(*                                                                         *)
(* Numbers.  JavaScript numbers are modelled as exact rationals <<n, d>>   *)
(* with d > 0 in lowest terms, so that 0.3, 0.1, 0.2, /1000 and the means  *)
(* are computed as the code computes them (rounding of doubles aside).     *)
(* Transaction amounts and the monthly sums are integers.                  *)
(***************************************************************************)
EXTENDS Integers, Sequences, FiniteSets, TLC

VARIABLES
    \* analyzeFinances: one invocation and the list its caller holds
    transactions,   \* the caller's transaction list (the argument)
    pc,             \* position of the invocation
    monthlyData,    \* extractFeatures' month map
    categories,     \* extractFeatures' category list
    model,          \* the trained tf model (its input size) or NoModel
    allocated,      \* the tf tensors and models allocated and not disposed
    lastWindow,     \* generateMLPredictions' sliding window
    predictions,    \* generateMLPredictions' partial result
    mlPredictions,  \* analyzeFinances' mlPredictions (Null or 3 pairs)
    mlRaised,       \* the try block of lines 924-932 raised
    step5,          \* which branch of lines 959-969 produced the totals
    report,         \* the returned analysis (NoReport before)
    error,          \* the Error thrown (NoError if none)
    \* predictWithSmoothing applied on its own
    sm,
    \* extractFeatures applied on its own
    ex,
    \* localStorage under LOCAL_STORAGE_KEY, and the clock
    cache,
    \* the cards, their transactions and the scheduled sweep of App
    app,
    \* two invocations of analyzeFinances in flight at once
    calls,
    \* calculateStatistics applied on its own
    st

pipeVars == <<transactions, pc, monthlyData, categories, model, allocated,
              lastWindow, predictions, mlPredictions, mlRaised, step5, report,
              error>>
others == <<cache, app, calls, st>>
vars == <<pipeVars, sm, ex, others>>

-----------------------------------------------------------------------------
(* Bounds of the model *)

\* longest history of Spec, in months
HistoryMonths == 7
\* longest transaction list (and number of calendar months) of SpecLists
MaxTx == 3
\* longest series handed to predictWithSmoothing in SpecSmooth
MaxSeries == 3
\* largest number of periods asked of predictWithSmoothing in SpecSmooth
MaxPeriods == 3
\* longest transaction list handed to extractFeatures in SpecExtract
MaxExTx == 2
\* largest number of months handed to calculateStatistics in SpecStats
MaxStatMonths == 5
\* last hour of the clock of SpecCache
MaxClock == 26

-----------------------------------------------------------------------------
(* Exact arithmetic on JavaScript numbers *)

Abs(i) == IF i < 0 THEN -i ELSE i

RECURSIVE GCD(_, _)
GCD(a, b) == IF b = 0 THEN a ELSE GCD(b, a % b)

Norm(n, d) ==
    IF n = 0 THEN <<0, 1>>
    ELSE LET g == GCD(Abs(n), d) IN <<n \div g, d \div g>>

Num(i) == <<i, 1>>
Frac(n, d) == Norm(n, d)
Zero == Num(0)

\* sums, products and comparisons cancel common factors first, to keep the
\* intermediate integers small
Add(x, y) ==
    LET g == GCD(x[2], y[2])
    IN  Norm(x[1] * (y[2] \div g) + y[1] * (x[2] \div g), (x[2] \div g) * y[2])
Neg(x) == <<-x[1], x[2]>>
Sub(x, y) == Add(x, Neg(y))
Mul(x, y) ==
    LET a == Norm(x[1], y[2])
        b == Norm(y[1], x[2])
    IN  <<a[1] * b[1], a[2] * b[2]>>
DivInt(x, k) == Mul(x, <<1, k>>)
Less(x, y) ==
    LET g == GCD(x[2], y[2])
    IN  x[1] * (y[2] \div g) < y[1] * (x[2] \div g)
Greater(x, y) == Less(y, x)
Max(x, y) == IF Less(x, y) THEN y ELSE x
Min(x, y) == IF Less(y, x) THEN y ELSE x

Range(s) == {s[i] : i \in DOMAIN s}

RECURSIVE SumSeq(_)
SumSeq(s) == IF s = <<>> THEN Zero ELSE Add(Head(s), SumSeq(Tail(s)))

\* values.reduce((a, b) => a + b, 0) / values.length
Mean(s) == DivInt(SumSeq(s), Len(s))

\* Array(periods).fill(v)
Fill(periods, v) == [i \in 1..periods |-> v]

\* values.slice(-k): the last min(k, length) elements
LastK(s, k) == IF Len(s) <= k THEN s ELSE SubSeq(s, Len(s) - k + 1, Len(s))

-----------------------------------------------------------------------------
(* predictWithSmoothing, users.js 687-740 *)

IsPositive(v) == Greater(v, Zero)

\* line 689: values.filter(v => v > 0)
RECURSIVE PositiveValues(_)
PositiveValues(s) ==
    IF s = <<>> THEN <<>>
    ELSE IF IsPositive(Head(s)) THEN <<Head(s)>> \o PositiveValues(Tail(s))
         ELSE PositiveValues(Tail(s))

\* lines 691-697: no strictly positive value in the series
NoSignalMutant(periods, fallbackAverage) == Fill(periods, fallbackAverage)
NoSignal(periods, fallbackAverage) ==
    IF Greater(fallbackAverage, Zero) THEN Fill(periods, fallbackAverage)
    ELSE Fill(periods, Zero)

\* lines 699-701: exactly one strictly positive value
SinglePositiveMutant(values, nonZeroValues, periods) == Fill(periods, values[1])
SinglePositive(values, nonZeroValues, periods) == Fill(periods, nonZeroValues[1])

\* lines 704-707: forecast = alpha * values[i] + (1 - alpha) * forecast
RECURSIVE Smooth(_, _, _, _)
Smooth(values, alpha, i, forecast) ==
    IF i > Len(values) THEN forecast
    ELSE Smooth(values, alpha, i + 1,
                Add(Mul(alpha, values[i]), Mul(Sub(Num(1), alpha), forecast)))

\* lines 716-728: mean of the consecutive changes of the last 6 values,
\* limited to +-20% of avg
Changes(recentValues) ==
    [i \in 1..(Len(recentValues) - 1) |-> Sub(recentValues[i + 1], recentValues[i])]

Limit(trendFactor, maxChange) == Max(Neg(maxChange), Min(maxChange, trendFactor))

TrendOf(recentValues, avg) ==
    IF Len(recentValues) >= 2
    THEN Limit(Mean(Changes(recentValues)), Mul(avg, Frac(2, 10)))
    ELSE Zero

TrendFactorMutant(values, avg) == TrendOf(values, avg)
TrendFactor(values, avg) == TrendOf(LastK(values, 6), avg)

\* lines 709-713: a forecast below 10% of the average is replaced by it
Forecast(smoothed, avg) ==
    IF Less(smoothed, Mul(avg, Frac(1, 10))) /\ Greater(avg, Zero) THEN avg
    ELSE smoothed

\* lines 731-735: Math.max(0, forecast + trendFactor * (i + 1)) for i < periods
ExtrapolateMutant(periods, forecast, trendFactor) ==
    [i \in 1..periods |->
        Max(Zero, Mul(forecast, Add(Num(1), Mul(trendFactor, Num(i)))))]
Extrapolate(periods, forecast, trendFactor) ==
    [i \in 1..periods |-> Max(Zero, Add(forecast, Mul(trendFactor, Num(i))))]

\* lines 704-735: two or more strictly positive values
Smoothing(values, periods, alpha, avg) ==
    Extrapolate(periods, Forecast(Smooth(values, alpha, 2, values[1]), avg),
                TrendFactor(values, avg))

PredictFrom(values, nonZeroValues, periods, alpha, fallbackAverage) ==
    IF Len(nonZeroValues) = 0 THEN NoSignal(periods, fallbackAverage)
    ELSE IF Len(nonZeroValues) = 1
         THEN SinglePositive(values, nonZeroValues, periods)
    ELSE Smoothing(values, periods, alpha, Mean(nonZeroValues))

predictWithSmoothing(values, periods, alpha, fallbackAverage) ==
    PredictFrom(values, PositiveValues(values), periods, alpha, fallbackAverage)

-----------------------------------------------------------------------------
(* Transactions as analyzeFinances receives them.                          *)
(* date: 0 stands for a value new Date() cannot parse (getTime() is NaN),  *)
(*       k >= 1 for a date in the k-th calendar month counted from         *)
(*       December 2023.                                                    *)
(* amount: [numeric, val]; numeric = FALSE stands for a missing or         *)
(*       non-numeric amount (Number(tx.amount) is NaN).                    *)
(* category: "" stands for a missing or empty category.                    *)

Tx(date, type, category, amount) ==
    [date |-> date, type |-> type, category |-> category, amount |-> amount]

Amount(v) == [numeric |-> TRUE, val |-> v]
NotANumber == [numeric |-> FALSE, val |-> 0]

\* line 579: isNaN(date.getTime())
IsInvalidDateMutant(date) == FALSE
IsInvalidDate(date) == date = 0

\* line 584: `${date.getFullYear()}-${String(date.getMonth() + 1).padStart(2, '0')}`
\* The key YYYY-MM is modelled as the integer YYYYMM: comparing the padded
\* strings character by character is comparing these integers.
MonthKey(date) ==
    LET i == 10 + date
    IN  (2023 + (i \div 12)) * 100 + (i % 12) + 1

\* line 585: tx.category || 'Other'
CategoryOf(tx) == IF tx.category = "" THEN "Other" ELSE tx.category

\* line 586: Number(tx.amount) || 0
AmountOf(tx) == IF tx.amount.numeric THEN tx.amount.val ELSE 0

NoBucket == [cost |-> 0, revenue |-> 0]

\* lines 598-604 applied to one {cost, revenue} bucket
AddToBucketByRevenue(bucket, type, amount) ==
    IF type = "revenue" THEN [bucket EXCEPT !.revenue = @ + amount]
    ELSE [bucket EXCEPT !.cost = @ + amount]
AddToBucketMutant(bucket, type, amount) ==
    IF type = "cost" THEN [bucket EXCEPT !.cost = amount]
    ELSE [bucket EXCEPT !.revenue = amount]
AddToBucket(bucket, type, amount) ==
    IF type = "cost" THEN [bucket EXCEPT !.cost = @ + amount]
    ELSE [bucket EXCEPT !.revenue = @ + amount]

\* line 588: categories.add(category), a Set kept in insertion order
AddCategoryMutant(cats, category) == Append(cats, category)
AddCategory(cats, category) ==
    IF category \in Range(cats) THEN cats ELSE Append(cats, category)

\* lines 577-605: the body of the forEach for one transaction
ExtractOne(acc, tx) ==
    IF IsInvalidDate(tx.date) THEN acc
    ELSE LET monthKey == MonthKey(tx.date)
             category == CategoryOf(tx)
             amount == AmountOf(tx)
             md == acc.monthlyData
             month == IF monthKey \in DOMAIN md THEN md[monthKey]
                      ELSE [cost |-> 0, revenue |-> 0, categories |-> <<>>]
             bucket == IF category \in DOMAIN month.categories
                       THEN month.categories[category] ELSE NoBucket
             totals == AddToBucket([cost |-> month.cost,
                                    revenue |-> month.revenue], tx.type, amount)
             month2 == [cost |-> totals.cost, revenue |-> totals.revenue,
                        categories |->
                            (category :> AddToBucket(bucket, tx.type, amount))
                            @@ month.categories]
         IN  [monthlyData |-> (monthKey :> month2) @@ md,
              categories |-> AddCategory(acc.categories, category)]

RECURSIVE ExtractFrom(_, _)
ExtractFrom(txs, acc) ==
    IF txs = <<>> THEN acc
    ELSE ExtractFrom(Tail(txs), ExtractOne(acc, Head(txs)))

\* lines 570-611
extractFeatures(txs) ==
    ExtractFrom(txs, [monthlyData |-> <<>>, categories |-> <<>>])

-----------------------------------------------------------------------------
(* calculateStatistics, users.js 616-682 *)

\* Object.keys(monthlyData).sort()
RECURSIVE SortedKeys(_)
SortedKeys(S) ==
    IF S = {} THEN <<>>
    ELSE LET m == CHOOSE x \in S : \A y \in S : x <= y
         IN  <<m>> \o SortedKeys(S \ {m})

RECURSIVE SumInts(_)
SumInts(s) == IF s = <<>> THEN 0 ELSE Head(s) + SumInts(Tail(s))

\* monthlyData[m].categories[cat]?.cost || 0 (and .revenue)
CategoryCost(md, m, cat) ==
    IF cat \in DOMAIN md[m].categories THEN md[m].categories[cat].cost ELSE 0
CategoryRevenue(md, m, cat) ==
    IF cat \in DOMAIN md[m].categories THEN md[m].categories[cat].revenue ELSE 0

\* lines 624-639: per-category totals and the number of months holding it
CategoryTotals(md, months, cat) ==
    [cost |-> SumInts([i \in DOMAIN months |-> CategoryCost(md, months[i], cat)]),
     revenue |->
        SumInts([i \in DOMAIN months |-> CategoryRevenue(md, months[i], cat)]),
     count |-> Cardinality({i \in DOMAIN months :
                                cat \in DOMAIN md[months[i]].categories})]

\* lines 647-662: the trend of the costs of the last 3 months
Ceil2(k) == (k + 1) \div 2
FirstHalf(recent) == SubSeq(recent, 1, Ceil2(Len(recent)))
SecondHalf(recent) == SubSeq(recent, Ceil2(Len(recent)) + 1, Len(recent))

\* lines 659-660
ClassifyMutant(firstAvg, secondAvg) ==
    IF ~Less(secondAvg, Mul(firstAvg, Frac(11, 10))) THEN "increasing"
    ELSE IF ~Greater(secondAvg, Mul(firstAvg, Frac(9, 10))) THEN "decreasing"
    ELSE "stable"
Classify(firstAvg, secondAvg) ==
    IF Greater(secondAvg, Mul(firstAvg, Frac(11, 10))) THEN "increasing"
    ELSE IF Less(secondAvg, Mul(firstAvg, Frac(9, 10))) THEN "decreasing"
    ELSE "stable"

TrendOfRecent(recentCosts) ==
    IF Len(recentCosts) >= 2
    THEN Classify(Mean(FirstHalf(recentCosts)), Mean(SecondHalf(recentCosts)))
    ELSE "stable"

Trend(costs) ==
    IF Len(costs) >= 2 THEN TrendOfRecent(LastK(costs, 3)) ELSE "stable"

\* lines 665-669: stable sort of the categories with cost > 0, descending
RECURSIVE InsertByCost(_, _, _)
InsertByCost(sorted, cat, totals) ==
    IF sorted = <<>> THEN <<cat>>
    ELSE IF totals[Head(sorted)].cost >= totals[cat].cost
         THEN <<Head(sorted)>> \o InsertByCost(Tail(sorted), cat, totals)
         ELSE <<cat>> \o sorted

RECURSIVE SortByCost(_, _, _)
SortByCost(cats, totals, sorted) ==
    IF cats = <<>> THEN sorted
    ELSE SortByCost(Tail(cats), totals,
                    IF totals[Head(cats)].cost > 0
                    THEN InsertByCost(sorted, Head(cats), totals) ELSE sorted)

TopCategories(cats, totals) ==
    LET sorted == SortByCost(cats, totals, <<>>)
    IN  SubSeq(sorted, 1, IF Len(sorted) < 3 THEN Len(sorted) ELSE 3)

TotalCosts(md, months) == [i \in DOMAIN months |-> Num(md[months[i]].cost)]
TotalRevenues(md, months) == [i \in DOMAIN months |-> Num(md[months[i]].revenue)]

\* lines 641-682
StatisticsOf(md, cats, months, totalCost, totalRevenue, categoryTotals, numMonths) ==
    [avgMonthlyCost |-> Frac(totalCost, numMonths),
     avgMonthlyRevenue |-> Frac(totalRevenue, numMonths),
     totalCost |-> totalCost,
     totalRevenue |-> totalRevenue,
     trend |-> Trend(TotalCosts(md, months)),
     topCategories |-> TopCategories(cats, categoryTotals),
     categoryTotals |-> categoryTotals,
     months |-> months,
     numMonths |-> numMonths]

\* lines 617-639
StatisticsOver(md, cats, months) ==
    StatisticsOf(md, cats, months,
                 SumInts([i \in DOMAIN months |-> md[months[i]].cost]),
                 SumInts([i \in DOMAIN months |-> md[months[i]].revenue]),
                 [c \in Range(cats) |-> CategoryTotals(md, months, c)],
                 IF Len(months) = 0 THEN 1 ELSE Len(months))

calculateStatistics(md, cats) == StatisticsOver(md, cats, SortedKeys(DOMAIN md))

-----------------------------------------------------------------------------
(* buildAndTrainModel and generateMLPredictions, users.js 745-846 *)

Null == <<>>
NoModel == [built |-> FALSE, inputSize |-> 0]

IntMin(a, b) == IF a < b THEN a ELSE b

\* line 754
WindowSizeMutant(months) == IntMin(2, Len(months) - 1)
WindowSize(months) == IntMin(3, Len(months) - 1)

\* monthlyData[m].cost / 1000, monthlyData[m].revenue / 1000 for months i..j
RECURSIVE Window(_, _, _, _)
Window(md, months, i, j) ==
    IF i > j THEN <<>>
    ELSE <<Frac(md[months[i]].cost, 1000), Frac(md[months[i]].revenue, 1000)>>
         \o Window(md, months, i + 1, j)

\* lines 758-769: the training examples xs and ys
TrainingXs(md, months) ==
    LET w == WindowSize(months)
    IN  [k \in 1..(Len(months) - w) |-> Window(md, months, k, k + w - 1)]
TrainingYs(md, months) ==
    LET w == WindowSize(months)
    IN  [k \in 1..(Len(months) - w) |-> Window(md, months, k + w, k + w)]

\* lines 748-774: whether buildAndTrainModel goes on to build and fit a model
TrainsMutant(md) == TRUE
Trains(md) ==
    LET months == SortedKeys(DOMAIN md)
    IN  /\ ~(Len(months) < 3)
        /\ ~(Len(TrainingXs(md, months)) < 2)

\* lines 779-785: the model fitted, with inputShape [windowSize * 2]
FittedModel(md) ==
    [built |-> TRUE, inputSize |-> WindowSize(SortedKeys(DOMAIN md)) * 2]

\* lines 815-821, with the default windowSize = 3 of line 811
FirstWindow(md, months) == Window(md, months, Len(months) - 3 + 1, Len(months))

\* lines 829-830: Math.max(0, values[k] * 1000)
ClampMutant(value) == Mul(value, Num(1000))
Clamp(value) == Max(Zero, Mul(value, Num(1000)))

\* lines 835-837: drop the oldest month, append the predicted one
ShiftWindowMutant(window, p) ==
    window \o <<DivInt(p.cost, 1000), DivInt(p.revenue, 1000)>>
ShiftWindow(window, p) ==
    SubSeq(window, 3, Len(window))
        \o <<DivInt(p.cost, 1000), DivInt(p.revenue, 1000)>>

\* what the fitted network may answer for one input (prediction.data())
RawOutputs == {Frac(-2, 1000), Frac(2, 1000)}

-----------------------------------------------------------------------------
(* getCategoryTrend and getRecommendation, users.js 866-900 *)

\* lines 881-883
ClassifyCategoryMutant(firstAvg, secondAvg) ==
    IF Greater(secondAvg, Mul(firstAvg, Frac(11, 10))) THEN "up"
    ELSE IF Less(secondAvg, Mul(firstAvg, Frac(9, 10))) THEN "down"
    ELSE "stable"
ClassifyCategory(firstAvg, secondAvg) ==
    IF Greater(secondAvg, Mul(firstAvg, Frac(115, 100))) THEN "up"
    ELSE IF Less(secondAvg, Mul(firstAvg, Frac(85, 100))) THEN "down"
    ELSE "stable"

CategoryTrendOfRecent(recentValues) ==
    IF Len(recentValues) < 2 THEN "stable"
    ELSE ClassifyCategory(Mean(FirstHalf(recentValues)),
                          Mean(SecondHalf(recentValues)))

getCategoryTrend(md, months, category) ==
    IF Len(months) < 2 THEN "stable"
    ELSE CategoryTrendOfRecent(
            LastK([i \in DOMAIN months |->
                        Num(CategoryCost(md, months[i], category))], 3))

getRecommendationMutant(trend, avgCost, avgRevenue) ==
    IF trend = "up" /\ Greater(avgCost, Zero) THEN "budget-limit"
    ELSE IF trend = "down" /\ Greater(avgCost, Zero) THEN "good-job"
    ELSE IF Greater(avgCost, avgRevenue) THEN "review-expenses"
    ELSE "stable"
getRecommendation(trend, avgCost, avgRevenue) ==
    IF trend = "up" /\ Greater(avgCost, Zero) THEN "budget-limit"
    ELSE IF trend = "down" /\ Greater(avgCost, Zero) THEN "good-job"
    ELSE IF Greater(avgCost, avgRevenue) /\ Greater(avgRevenue, Zero)
         THEN "review-expenses"
    ELSE "stable"

-----------------------------------------------------------------------------
(* analyzeFinances after its try block, users.js 934-1057 *)

AllZero(s) == \A i \in DOMAIN s : s[i] = Zero
SomePositive(s) == \E i \in DOMAIN s : Greater(s[i], Zero)

\* line 959: mlPredictions && mlPredictions.some(p => p.cost > 0 || p.revenue > 0)
UsesRegressionMutant(mlp) == mlp # Null
UsesRegression(mlp) ==
    /\ mlp # Null
    /\ \E i \in DOMAIN mlp : Greater(mlp[i].cost, Zero) \/ Greater(mlp[i].revenue, Zero)

\* lines 972-977: the degenerate-data guard
DegenerateGuardMutant(prediction, average) == prediction
DegenerateGuard(prediction, average) ==
    IF AllZero(prediction) /\ Greater(average, Zero) THEN Fill(3, average)
    ELSE prediction

\* line 1050
ModelType(mlp) == IF mlp # Null THEN "neural-network" ELSE "statistical"

\* lines 947-948, 988-989: total / (count || 1)
CategoryAverage(total, count) == Frac(total, IF count = 0 THEN 1 ELSE count)

CategoryCostSeries(md, months, cat) ==
    [i \in DOMAIN months |-> Num(CategoryCost(md, months[i], cat))]
CategoryRevenueSeries(md, months, cat) ==
    [i \in DOMAIN months |-> Num(CategoryRevenue(md, months[i], cat))]

Alpha == Frac(3, 10)

\* lines 959-969: the totals of step 5, before the guard
Step5Cost(md, stats, mlp) ==
    IF UsesRegression(mlp) THEN [i \in DOMAIN mlp |-> mlp[i].cost]
    ELSE predictWithSmoothing(TotalCosts(md, stats.months), 3, Alpha,
                              stats.avgMonthlyCost)
Step5Revenue(md, stats, mlp) ==
    IF UsesRegression(mlp) THEN [i \in DOMAIN mlp |-> mlp[i].revenue]
    ELSE predictWithSmoothing(TotalRevenues(md, stats.months), 3, Alpha,
                              stats.avgMonthlyRevenue)

\* lines 1000-1024: the insights, as tags in the order they are pushed
InsightsOf(stats, avgNetBalance) ==
    <<stats.trend>>
    \o (IF Len(stats.topCategories) > 0 THEN <<"top-categories">> ELSE <<>>)
    \o (IF Greater(avgNetBalance, Zero) THEN <<"savings">>
        ELSE IF Less(avgNetBalance, Zero) THEN <<"overspend">> ELSE <<>>)
    \o (IF stats.numMonths < 3 THEN <<"few-months">> ELSE <<>>)

Insights(stats) ==
    InsightsOf(stats, Sub(stats.avgMonthlyRevenue, stats.avgMonthlyCost))

NoReport == [returned |-> FALSE]

\* lines 938-954: the forecasts per category; a category none of whose
\* monthly revenues is positive gets no revenue forecast
CategoryAverages(stats, c) ==
    [cost |-> CategoryAverage(stats.categoryTotals[c].cost,
                              stats.categoryTotals[c].count),
     revenue |-> CategoryAverage(stats.categoryTotals[c].revenue,
                                 stats.categoryTotals[c].count)]

CategoryCostPredictions(md, stats, catSet) ==
    [c \in catSet |->
        predictWithSmoothing(CategoryCostSeries(md, stats.months, c), 3, Alpha,
                             CategoryAverages(stats, c).cost)]

CategoryRevenuePredictions(md, stats, catSet) ==
    [c \in {x \in catSet :
                SomePositive(CategoryRevenueSeries(md, stats.months, x))} |->
        predictWithSmoothing(CategoryRevenueSeries(md, stats.months, c), 3, Alpha,
                             CategoryAverages(stats, c).revenue)]

\* lines 979-981
NetBalance(totalCost, totalRevenue) ==
    [i \in 1..3 |-> Sub(totalRevenue[i], totalCost[i])]

\* lines 956-981 and 1036-1043; predictions.months (the clock) is left out,
\* and predictions.revenue with no key stands for undefined (line 1039)
Predictions(md, stats, catSet, totalCost, totalRevenue) ==
    [costs |-> CategoryCostPredictions(md, stats, catSet),
     revenue |-> CategoryRevenuePredictions(md, stats, catSet),
     totalCost |-> totalCost,
     totalRevenue |-> totalRevenue,
     netBalance |-> NetBalance(totalCost, totalRevenue)]

\* lines 987-997
BreakdownOf(avg, trend) ==
    [currentAverage |-> IF avg.cost # Zero THEN avg.cost ELSE avg.revenue,
     predictedTrend |-> trend,
     recommendation |-> getRecommendation(trend, avg.cost, avg.revenue)]

CategoryBreakdown(md, stats, catSet) ==
    [c \in catSet |-> BreakdownOf(CategoryAverages(stats, c),
                                  getCategoryTrend(md, stats.months, c))]

\* lines 1027-1052; metadata.analyzedAt (the clock) is left out
Assemble(txs, md, cats, mlp, stats) ==
    [returned |-> TRUE,
     summary |->
        [topSpendingCategories |-> stats.topCategories,
         averageMonthlySpending |-> stats.avgMonthlyCost,
         averageMonthlyRevenue |-> stats.avgMonthlyRevenue,
         spendingTrend |-> stats.trend,
         totalHistoricalCost |-> stats.totalCost,
         totalHistoricalRevenue |-> stats.totalRevenue],
     predictions |->
        Predictions(md, stats, Range(cats),
                    DegenerateGuard(Step5Cost(md, stats, mlp), stats.avgMonthlyCost),
                    DegenerateGuard(Step5Revenue(md, stats, mlp),
                                    stats.avgMonthlyRevenue)),
     insights |-> Insights(stats),
     categoryBreakdown |-> CategoryBreakdown(md, stats, Range(cats)),
     metadata |->
        [transactionCount |-> Len(txs),
         monthsAnalyzed |-> stats.numMonths,
         modelType |-> ModelType(mlp)]]

\* lines 919 and 934-1056: the analysis object built from the month map, the
\* categories and mlPredictions
Analysis(txs, md, cats, mlp) ==
    CHOOSE analysis \in {Assemble(txs, md, cats, mlp, stats) :
                            stats \in {calculateStatistics(md, cats)}} : TRUE

-----------------------------------------------------------------------------
(* analyzeFinances as a process: its synchronous stretches between awaits *)

SmUnused == [pc |-> "unused"]
ExUnused == [pc |-> "unused"]
CacheUnused == [pc |-> "unused"]
AppUnused == [pc |-> "unused"]
CallsUnused == [pc |-> "unused"]
StUnused == [pc |-> "unused"]

\* the argument of analyzeFinances: a list, or nothing (undefined)
Argument(given, list) == [given |-> given, list |-> list]

InitPipe ==
    /\ pc = "idle"
    /\ monthlyData = <<>>
    /\ categories = <<>>
    /\ model = NoModel
    /\ allocated = {}
    /\ lastWindow = <<>>
    /\ predictions = <<>>
    /\ mlPredictions = Null
    /\ mlRaised = FALSE
    /\ step5 = "none"
    /\ report = NoReport
    /\ error = "none"

\* lines 908-910 and 915-917: throw new Error(...)
Throw(message) ==
    /\ pc' = "failed"
    /\ error' = message
    /\ UNCHANGED <<transactions, model, allocated, lastWindow, predictions,
                   mlPredictions, mlRaised, step5, report, sm, ex, others>>

\* lines 905-925: from the call to the first await
AnalyzeStart ==
    /\ pc = "idle"
    /\ IF ~transactions.given \/ Len(transactions.list) = 0
       THEN Throw("no-transactions") /\ UNCHANGED <<monthlyData, categories>>
       ELSE LET f == extractFeatures(transactions.list)
            IN  /\ monthlyData' = f.monthlyData
                /\ categories' = f.categories
                /\ IF DOMAIN f.monthlyData = {}
                   THEN Throw("no-valid-data")
                   ELSE /\ pc' = "training"
                        /\ UNCHANGED <<transactions, model, allocated,
                                       lastWindow, predictions, mlPredictions,
                                       mlRaised, step5, report, error, sm, ex,
                                       others>>

\* lines 934-1056: the rest of analyzeFinances once mlPredictions is settled;
\* the locals of generateMLPredictions are gone by then, and the tf objects
\* still allocated are one of the sets of `left`
Finish(mlp, raised, left) ==
    /\ lastWindow' = <<>>
    /\ predictions' = <<>>
    /\ mlPredictions' = mlp
    /\ mlRaised' = raised
    /\ step5' = IF UsesRegression(mlp) THEN "regression" ELSE "smoothing"
    /\ report' = Analysis(transactions.list, monthlyData, categories, mlp)
    /\ pc' = "done"
    /\ allocated' \in left
    /\ UNCHANGED <<transactions, monthlyData, categories, error, sm, ex, others>>

\* lines 930-932: catch (e) { console.warn(...) }, mlPredictions stays null
CatchMutant(left) ==
    /\ pc' = "failed"
    /\ error' = "ml-error"
    /\ mlRaised' = TRUE
    /\ lastWindow' = <<>>
    /\ predictions' = <<>>
    /\ allocated' \in left
    /\ UNCHANGED <<transactions, monthlyData, categories, mlPredictions, step5,
                   report, sm, ex, others>>
Catch(left) == Finish(Null, TRUE, left)

\* lines 748-751 and 771-774: buildAndTrainModel returns null before line 779
TrainSkip ==
    /\ pc = "training"
    /\ ~Trains(monthlyData)
    /\ Finish(Null, FALSE, {allocated})
    /\ UNCHANGED model

\* lines 779-805: the model is built, xsTensor and ysTensor are allocated,
\* model.fit resolves, both tensors are disposed and the model is returned;
\* lines 926-927 and 812-821: generateMLPredictions runs up to its loop
TrainFit ==
    /\ pc = "training"
    /\ Trains(monthlyData)
    /\ model' = FittedModel(monthlyData)
    /\ LET months == SortedKeys(DOMAIN monthlyData)
       IN  IF Len(months) < 3
           THEN Finish(Null, FALSE, {{}})
           ELSE /\ lastWindow' = FirstWindow(monthlyData, months)
                /\ predictions' = <<>>
                /\ allocated' = {"model"}
                /\ pc' = "predicting"
                /\ UNCHANGED <<transactions, monthlyData, categories,
                               mlPredictions, mlRaised, step5, report, error,
                               sm, ex, others>>

\* what is allocated and not disposed when buildAndTrainModel raises in
\* tf.sequential (779), tf.tensor2d(xs) (793), tf.tensor2d(ys) (794) or
\* model.fit (796): lines 802-803 are not reached
TrainFailures ==
    {{}, {"model"}, {"model", "xsTensor"}, {"model", "xsTensor", "ysTensor"}}

\* lines 779-799: building the model, allocating the tensors or model.fit raises
TrainFail ==
    /\ pc = "training"
    /\ Trains(monthlyData)
    /\ Catch(TrainFailures)
    /\ UNCHANGED model

\* lines 824-841: one round of the prediction loop, which allocates and
\* disposes input and prediction; after the third, lines 843-845, 928
\* (model.dispose()) and the rest of analyzeFinances
PredictStep(values) ==
    /\ pc = "predicting"
    /\ Len(lastWindow) = model.inputSize
    /\ LET p == [cost |-> Clamp(values[1]), revenue |-> Clamp(values[2])]
           all == Append(predictions, p)
       IN  IF Len(all) = 3
           THEN Finish(all, FALSE, {allocated \ {"model"}})
           ELSE /\ predictions' = all
                /\ lastWindow' = ShiftWindow(lastWindow, p)
                /\ UNCHANGED <<transactions, pc, monthlyData, categories,
                               allocated, mlPredictions, mlRaised, step5,
                               report, error, sm, ex, others>>
    /\ UNCHANGED model

\* what is allocated and not disposed when a round raises in tf.tensor2d
\* (825), model.predict (826) or prediction.data() (827): lines 839-840 and
\* 928 are not reached
PredictFailures ==
    {{"model"}, {"model", "input"}, {"model", "input", "prediction"}}

\* lines 825-827: tf.tensor2d, model.predict or prediction.data() raises
PredictFail ==
    /\ pc = "predicting"
    /\ Catch(PredictFailures)
    /\ UNCHANGED model

\* the caller stops waiting for the analysis while model.fit runs (the page
\* is left or reloaded): the invocation never resumes
AbandonMutant ==
    /\ pc = "training"
    /\ pc' = "abandoned"
    /\ cache' = [cache EXCEPT !.item = <<>>]
    /\ UNCHANGED <<transactions, monthlyData, categories, model, allocated,
                   lastWindow, predictions, mlPredictions, mlRaised, step5,
                   report, error, sm, ex, app, calls, st>>
Abandon ==
    /\ pc = "training"
    /\ pc' = "abandoned"
    /\ UNCHANGED <<transactions, monthlyData, categories, model, allocated,
                   lastWindow, predictions, mlPredictions, mlRaised, step5,
                   report, error, sm, ex, others>>

-----------------------------------------------------------------------------
(* saveAnalysis, loadAnalysis, clearAnalysis and hasRecentAnalysis,        *)
(* users.js 1062-1115 (and the same text in openaiAnalysis.js 212-265).    *)
(* cache.item is the localStorage entry under LOCAL_STORAGE_KEY, cache.now *)
(* the clock in hours.  A report is kept as its content and its            *)
(* metadata.analyzedAt: <<t>> for the hour t, <<>> when it has none.       *)

Stored(content, analyzedAt) ==
    [content |-> content, metadata |-> [analyzedAt |-> analyzedAt]]

\* localStorage.getItem gives null
NoItem == <<>>

\* JSON.stringify: the properties in order, those that are undefined left out
Stringify(analysis) ==
    <<<<"content", analysis.content>>>>
    \o (IF analysis.metadata.analyzedAt = <<>> THEN <<>>
        ELSE <<<<"analyzedAt", analysis.metadata.analyzedAt[1]>>>>)

\* JSON.parse: a property that is not in the text reads as undefined
Parse(text) ==
    Stored(text[1][2], IF Len(text) < 2 THEN <<>> ELSE <<text[2][2]>>)

\* line 1114
RecentHours == 24

\* lines 1075-1086; <<>> stands for null
loadAnalysis(c) == IF c.item = NoItem THEN <<>> ELSE <<Parse(c.item)>>

\* lines 1104-1115
hasRecentAnalysisMutant(c) ==
    LET analysis == loadAnalysis(c)
    IN  IF analysis = <<>> THEN FALSE
        ELSE IF analysis[1].metadata.analyzedAt = <<>> THEN FALSE
        ELSE c.now - analysis[1].metadata.analyzedAt[1] <= RecentHours
hasRecentAnalysis(c) ==
    LET analysis == loadAnalysis(c)
    IN  IF analysis = <<>> THEN FALSE
        ELSE IF analysis[1].metadata.analyzedAt = <<>> THEN FALSE
        ELSE c.now - analysis[1].metadata.analyzedAt[1] < RecentHours

NoResult == [of |-> "none", value |-> <<>>]

\* a report made at the current hour, or one without metadata.analyzedAt
Analyses(c) ==
    {Stored(content, at) : content \in {"a", "b"}, at \in {<<c.now>>, <<>>}}

\* lines 1062-1065: setItem succeeds; saved remembers what was saved last
saveAnalysis(analysis) ==
    /\ cache.pc = "ready"
    /\ cache' = [cache EXCEPT !.item = Stringify(analysis),
                              !.saved = <<analysis>>,
                              !.result = [of |-> "saveAnalysis", value |-> TRUE]]
    /\ UNCHANGED <<pipeVars, sm, ex, app, calls, st>>

\* lines 1066-1069: setItem raises (no room left), nothing is stored
saveAnalysisFails(analysis) ==
    /\ cache.pc = "ready"
    /\ cache' = [cache EXCEPT
                    !.result = [of |-> "saveAnalysis", value |-> FALSE]]
    /\ UNCHANGED <<pipeVars, sm, ex, app, calls, st>>

\* lines 1091-1094
clearAnalysis ==
    /\ cache.pc = "ready"
    /\ cache' = [cache EXCEPT !.item = NoItem, !.saved = <<>>,
                              !.result = [of |-> "clearAnalysis", value |-> TRUE]]
    /\ UNCHANGED <<pipeVars, sm, ex, app, calls, st>>

\* an hour passes
Tick ==
    /\ cache.pc = "ready"
    /\ cache.now < MaxClock
    /\ cache' = [cache EXCEPT !.now = @ + 1, !.result = NoResult]
    /\ UNCHANGED <<pipeVars, sm, ex, app, calls, st>>

\* loadAnalysis and hasRecentAnalysis are called
Load ==
    /\ cache.pc = "ready"
    /\ cache' = [cache EXCEPT
                    !.result = [of |-> "loadAnalysis",
                                value |-> loadAnalysis(cache)]]
    /\ UNCHANGED <<pipeVars, sm, ex, app, calls, st>>

CheckRecent ==
    /\ cache.pc = "ready"
    /\ cache' = [cache EXCEPT
                    !.result = [of |-> "hasRecentAnalysis",
                                value |-> hasRecentAnalysis(cache)]]
    /\ UNCHANGED <<pipeVars, sm, ex, app, calls, st>>

InitCache ==
    /\ cache = [pc |-> "ready", item |-> NoItem, now |-> 0, saved |-> <<>>,
                result |-> NoResult]
    /\ transactions = Argument(FALSE, <<>>)
    /\ InitPipe
    /\ sm = SmUnused
    /\ ex = ExUnused
    /\ app = AppUnused
    /\ calls = CallsUnused
    /\ st = StUnused

NextCache ==
    \/ \E analysis \in Analyses(cache) : saveAnalysis(analysis)
    \/ \E analysis \in Analyses(cache) : saveAnalysisFails(analysis)
    \/ clearAnalysis
    \/ Tick
    \/ Load
    \/ CheckRecent

SpecCache == InitCache /\ [][NextCache]_vars

-----------------------------------------------------------------------------
(* Spec: analyzeFinances on histories of 1 to HistoryMonths consecutive    *)
(* months with one transaction of 2 in each, newest first (the app keeps   *)
(* the list in descending date order, lines 197 and 344); the category is  *)
(* "Food" in one month and missing in the next.  The lists without data    *)
(* are there too (no list, the empty one, one unparseable date), and the   *)
(* "Markets" scenario of the specification.                                *)

HistoryCategory(date) == IF date % 2 = 1 THEN "Food" ELSE ""

Histories ==
    UNION {{[i \in 1..n |-> Tx(n + 1 - i, type[i], HistoryCategory(n + 1 - i),
                                Amount(2))] :
                type \in [1..n -> {"cost", "revenue"}]} : n \in 1..HistoryMonths}

NoData ==
    {Argument(FALSE, <<>>), Argument(TRUE, <<>>),
     Argument(TRUE, <<Tx(0, "cost", "Food", Amount(2))>>)}

\* 4 consecutive months with one cost each in the category "Markets":
\* 100, 120, 110, 130, and no revenue
MarketsScenario ==
    Argument(TRUE, <<Tx(4, "cost", "Markets", Amount(130)),
                     Tx(3, "cost", "Markets", Amount(110)),
                     Tx(2, "cost", "Markets", Amount(120)),
                     Tx(1, "cost", "Markets", Amount(100))>>)

\* localStorage holds a report saved before the analysis starts
StoredBefore ==
    [pc |-> "ready", item |-> Stringify(Stored("a", <<0>>)), now |-> 0,
     saved |-> <<Stored("a", <<0>>)>>, result |-> NoResult]

Init ==
    /\ transactions \in {Argument(TRUE, h) : h \in Histories}
                            \cup NoData \cup {MarketsScenario}
    /\ InitPipe
    /\ sm = SmUnused
    /\ ex = ExUnused
    /\ cache = StoredBefore
    /\ app = AppUnused
    /\ calls = CallsUnused
    /\ st = StUnused

Next ==
    \/ AnalyzeStart
    \/ TrainSkip
    \/ TrainFit
    \/ TrainFail
    \/ \E c \in RawOutputs, r \in RawOutputs : PredictStep(<<c, r>>)
    \/ PredictFail
    \/ Abandon

Spec == Init /\ [][Next]_vars

-----------------------------------------------------------------------------
(* SpecLists: analyzeFinances on any list of at most MaxTx transactions,   *)
(* in descending date order with the unparseable dates last.  A model is   *)
(* trained from 5 months on only (Trains), so with fewer transactions      *)
(* buildAndTrainModel always returns null.                                 *)

TxChoices ==
    {Tx(d, t, c, Amount(2)) : d \in 0..MaxTx, t \in {"cost", "revenue"},
                              c \in {"Food", ""}}

InitLists ==
    /\ transactions \in {Argument(TRUE, <<>>), Argument(FALSE, <<>>)}
    /\ InitPipe
    /\ sm = SmUnused
    /\ ex = ExUnused
    /\ cache = CacheUnused
    /\ app = AppUnused
    /\ calls = CallsUnused
    /\ st = StUnused

\* the caller's list grows before it is analysed
AddTx(tx) ==
    /\ pc = "idle"
    /\ transactions.given
    /\ Len(transactions.list) < MaxTx
    /\ IF transactions.list = <<>> THEN TRUE
       ELSE transactions.list[Len(transactions.list)].date >= tx.date
    /\ transactions' = [transactions EXCEPT !.list = Append(@, tx)]
    /\ UNCHANGED <<pc, monthlyData, categories, model, allocated, lastWindow,
                   predictions, mlPredictions, mlRaised, step5, report, error,
                   sm, ex, others>>

NextLists ==
    \/ \E tx \in TxChoices : AddTx(tx)
    \/ AnalyzeStart
    \/ TrainSkip

SpecLists == InitLists /\ [][NextLists]_vars

-----------------------------------------------------------------------------
(* SpecSmooth: predictWithSmoothing applied on its own *)

SeriesValues == {Num(-1), Zero, Num(1), Num(3)}
AllSeries == UNION {[1..n -> SeriesValues] : n \in 0..MaxSeries}

\* an argument left out of the call
Undefined == <<>>

\* line 687: the default parameters periods = 3, alpha = 0.3, fallbackAverage = 0
Default(argument, default) == IF argument = Undefined THEN default ELSE argument

predictWithSmoothingCall(values, periods, alpha, fallbackAverage) ==
    predictWithSmoothing(values,
                         IF periods = Undefined THEN 3 ELSE periods[1],
                         Default(alpha, Frac(3, 10)),
                         Default(fallbackAverage, Zero))

InitSmooth ==
    /\ sm \in [pc : {"called"},
               values : AllSeries,
               periods : {Undefined} \cup {<<n>> : n \in 0..MaxPeriods},
               alpha : {Undefined, Frac(1, 2), Num(1)},
               fallbackAverage : {Undefined, Num(-1), Zero, Num(2)},
               result : {<<>>}]
    /\ transactions = Argument(FALSE, <<>>)
    /\ InitPipe
    /\ ex = ExUnused
    /\ cache = CacheUnused
    /\ app = AppUnused
    /\ calls = CallsUnused
    /\ st = StUnused

SmoothReturn ==
    /\ sm.pc = "called"
    /\ sm' = [sm EXCEPT !.pc = "returned",
                        !.result = predictWithSmoothingCall(
                            sm.values, sm.periods, sm.alpha, sm.fallbackAverage)]
    /\ UNCHANGED <<pipeVars, ex, others>>

NextSmooth == SmoothReturn

SpecSmooth == InitSmooth /\ [][NextSmooth]_vars

-----------------------------------------------------------------------------
(* SpecSmoothLong: predictWithSmoothing on series of up to MaxLongSeries   *)
(* values, longer than the 6 values the trend is taken from, with alpha =  *)
(* 0.5 and the other parameters left to their defaults                     *)

MaxLongSeries == 7
LongSeriesValues == {Zero, Num(1), Num(4)}
LongSeries == UNION {[1..n -> LongSeriesValues] : n \in 0..MaxLongSeries}

InitSmoothLong ==
    /\ sm \in [pc : {"called"},
               values : LongSeries,
               periods : {Undefined},
               alpha : {Frac(1, 2)},
               fallbackAverage : {Undefined},
               result : {<<>>}]
    /\ transactions = Argument(FALSE, <<>>)
    /\ InitPipe
    /\ ex = ExUnused
    /\ cache = CacheUnused
    /\ app = AppUnused
    /\ calls = CallsUnused
    /\ st = StUnused

SpecSmoothLong == InitSmoothLong /\ [][NextSmooth]_vars

-----------------------------------------------------------------------------
(* SpecExtract: extractFeatures applied on its own *)

ExTxChoices ==
    {Tx(d, t, c, a) : d \in {0, 1, 2}, t \in {"cost", "revenue", "transfer"},
                      c \in {"Food", "Other", ""},
                      a \in {Amount(-1), Amount(2), NotANumber}}
ExLists == UNION {[1..n -> ExTxChoices] : n \in 0..MaxExTx}

InitExtract ==
    /\ ex \in [pc : {"called"}, transactions : ExLists,
               result : {[monthlyData |-> <<>>, categories |-> <<>>]}]
    /\ transactions = Argument(FALSE, <<>>)
    /\ InitPipe
    /\ sm = SmUnused
    /\ cache = CacheUnused
    /\ app = AppUnused
    /\ calls = CallsUnused
    /\ st = StUnused

ExtractReturn ==
    /\ ex.pc = "called"
    /\ ex' = [ex EXCEPT !.pc = "returned",
                        !.result = extractFeatures(ex.transactions)]
    /\ UNCHANGED <<pipeVars, sm, others>>

NextExtract == ExtractReturn

SpecExtract == InitExtract /\ [][NextExtract]_vars

-----------------------------------------------------------------------------
(* SpecStats: calculateStatistics applied on its own, to the month map of  *)
(* up to MaxStatMonths consecutive months with the given costs             *)

StatCosts == {0, 90, 100, 110, 200, 220}
CostSeries == UNION {[1..n -> StatCosts] : n \in 0..MaxStatMonths}

\* the month map extractFeatures leaves when month i holds costs[i]
MonthMapOf(costs) ==
    [m \in {MonthKey(i) : i \in DOMAIN costs} |->
        [cost |-> costs[CHOOSE i \in DOMAIN costs : MonthKey(i) = m],
         revenue |-> 0,
         categories |->
            [c \in {"Food"} |->
                [cost |-> costs[CHOOSE i \in DOMAIN costs : MonthKey(i) = m],
                 revenue |-> 0]]]]

InitStats ==
    /\ st \in [pc : {"called"}, costs : CostSeries, trend : {"none"}]
    /\ transactions = Argument(FALSE, <<>>)
    /\ InitPipe
    /\ sm = SmUnused
    /\ ex = ExUnused
    /\ cache = CacheUnused
    /\ app = AppUnused
    /\ calls = CallsUnused

StatsReturn ==
    /\ st.pc = "called"
    /\ st' = [st EXCEPT
                !.pc = "returned",
                !.trend = calculateStatistics(MonthMapOf(st.costs),
                                              <<"Food">>).trend]
    /\ UNCHANGED <<pipeVars, sm, ex, cache, app, calls>>

NextStats == StatsReturn

SpecStats == InitStats /\ [][NextStats]_vars

-----------------------------------------------------------------------------
(* SpecTrend: getCategoryTrend applied on its own, as analyzeFinances calls *)
(* it (line 990), for the category "Food" of up to MaxStatMonths            *)
(* consecutive months.  st.costs[i] is what month i holds of the category:  *)
(* <<c>> for the cost c, <<>> when no transaction of the month has the      *)
(* category.                                                               *)
(* Every month has a transaction of 50 in "Rent".                           *)

NoCategory == <<>>
CategoryCosts == {NoCategory} \cup {<<c>> : c \in {0, 88, 100, 112, 120}}
TrendSeries == UNION {[1..n -> CategoryCosts] : n \in 0..MaxStatMonths}

\* the cost a month holds of the category, 0 for a month without it
CostIn(costs, i) == IF costs[i] = NoCategory THEN 0 ELSE costs[i][1]

\* the month map extractFeatures leaves for these months
CategoryMonthMap(costs) ==
    [m \in {MonthKey(i) : i \in DOMAIN costs} |->
        LET i == CHOOSE i \in DOMAIN costs : MonthKey(i) = m
        IN  [cost |-> 50 + CostIn(costs, i),
             revenue |-> 0,
             categories |->
                [c \in IF costs[i] = NoCategory THEN {"Rent"}
                       ELSE {"Food", "Rent"} |->
                    [cost |-> IF c = "Rent" THEN 50 ELSE CostIn(costs, i),
                     revenue |-> 0]]]]

InitTrend ==
    /\ st \in [pc : {"category"}, costs : TrendSeries, trend : {"none"}]
    /\ transactions = Argument(FALSE, <<>>)
    /\ InitPipe
    /\ sm = SmUnused
    /\ ex = ExUnused
    /\ cache = CacheUnused
    /\ app = AppUnused
    /\ calls = CallsUnused

CategoryTrendReturn ==
    /\ st.pc = "category"
    /\ LET md == CategoryMonthMap(st.costs)
       IN  st' = [st EXCEPT
                    !.pc = "returned",
                    !.trend = getCategoryTrend(md, SortedKeys(DOMAIN md), "Food")]
    /\ UNCHANGED <<pipeVars, sm, ex, cache, app, calls>>

NextTrend == CategoryTrendReturn

SpecTrend == InitTrend /\ [][NextTrend]_vars

-----------------------------------------------------------------------------
(* SpecTrain: buildAndTrainModel up to its decision to train (lines         *)
(* 746-774), on the month map of up to MaxTrainMonths consecutive months;   *)
(* month i has the cost st.costs[i] and the revenue 10 + i.                 *)

MaxTrainMonths == 6
TrainCosts == {1, 2}
TrainSeries == UNION {[1..n -> TrainCosts] : n \in 1..MaxTrainMonths}

TrainMonthMap(costs) ==
    [m \in {MonthKey(i) : i \in DOMAIN costs} |->
        LET i == CHOOSE i \in DOMAIN costs : MonthKey(i) = m
        IN  [cost |-> costs[i], revenue |-> 10 + i,
             categories |-> [c \in {"Food"} |->
                                [cost |-> costs[i], revenue |-> 10 + i]]]]

InitTrain ==
    /\ st \in [pc : {"build"}, costs : TrainSeries, xs : {<<>>}, ys : {<<>>},
                trains : {FALSE}]
    /\ transactions = Argument(FALSE, <<>>)
    /\ InitPipe
    /\ sm = SmUnused
    /\ ex = ExUnused
    /\ cache = CacheUnused
    /\ app = AppUnused
    /\ calls = CallsUnused

\* lines 746-774: null at line 750 before xs and ys exist, or xs and ys are
\* filled and null is returned at line 773 or the model is built
PrepareTraining ==
    /\ st.pc = "build"
    /\ LET md == TrainMonthMap(st.costs)
           months == SortedKeys(DOMAIN md)
       IN  st' = [st EXCEPT
                    !.pc = "prepared",
                    !.xs = IF Len(months) < 3 THEN <<>>
                           ELSE TrainingXs(md, months),
                    !.ys = IF Len(months) < 3 THEN <<>>
                           ELSE TrainingYs(md, months),
                    !.trains = Trains(md)]
    /\ UNCHANGED <<pipeVars, sm, ex, cache, app, calls>>

NextTrain == PrepareTraining

SpecTrain == InitTrain /\ [][NextTrain]_vars

-----------------------------------------------------------------------------
(* SpecBreakdown: the category breakdown of analyzeFinances (lines 985-997) *)
(* on its own, for up to MaxBreakdownMonths months as in SpecTrend, where   *)
(* every month that holds "Food" also has st.revenue of revenue in it.      *)

MaxBreakdownMonths == 3
FoodRevenues == {0, 95, 200}
BreakdownSeries ==
    UNION {[1..n -> CategoryCosts] : n \in 0..MaxBreakdownMonths}

BreakdownMonthMap(costs, revenue) ==
    [m \in {MonthKey(i) : i \in DOMAIN costs} |->
        LET i == CHOOSE i \in DOMAIN costs : MonthKey(i) = m
            held == costs[i] # NoCategory
        IN  [cost |-> 50 + CostIn(costs, i),
             revenue |-> IF held THEN revenue ELSE 0,
             categories |->
                [c \in IF held THEN {"Food", "Rent"} ELSE {"Rent"} |->
                    IF c = "Rent" THEN [cost |-> 50, revenue |-> 0]
                    ELSE [cost |-> CostIn(costs, i), revenue |-> revenue]]]]

\* the categories extractFeatures has seen
BreakdownCategories(costs) ==
    IF costs = <<>> THEN <<>>
    ELSE IF \E i \in DOMAIN costs : costs[i] # NoCategory
         THEN <<"Rent", "Food">> ELSE <<"Rent">>

InitBreakdown ==
    /\ st \in [pc : {"breakdown"}, costs : BreakdownSeries,
                revenue : FoodRevenues, result : {<<>>}]
    /\ transactions = Argument(FALSE, <<>>)
    /\ InitPipe
    /\ sm = SmUnused
    /\ ex = ExUnused
    /\ cache = CacheUnused
    /\ app = AppUnused
    /\ calls = CallsUnused

BreakdownReturn ==
    /\ st.pc = "breakdown"
    /\ LET md == BreakdownMonthMap(st.costs, st.revenue)
           cats == BreakdownCategories(st.costs)
       IN  st' = [st EXCEPT
                    !.pc = "returned",
                    !.result = CategoryBreakdown(
                                   md, calculateStatistics(md, cats),
                                   Range(cats))]
    /\ UNCHANGED <<pipeVars, sm, ex, cache, app, calls>>

NextBreakdown == BreakdownReturn

SpecBreakdown == InitBreakdown /\ [][NextBreakdown]_vars

-----------------------------------------------------------------------------
(* SpecCalls: two invocations of analyzeFinances whose stretches between   *)
(* awaits interleave.  calls[i] holds the locals of invocation i, with     *)
(* raw (what the network answered to it), raised and met (another          *)
(* invocation was in flight while it ran) kept for the properties.         *)

CallIds == {1, 2}
Other(i) == 3 - i

\* histories of 2 and 5 months, all costs or all revenues
CallLists ==
    {h \in Histories : /\ Len(h) \in {2, 5}
                       /\ \A k \in DOMAIN h : h[k].type = h[1].type}

NewCall(list) ==
    [transactions |-> list, pc |-> "idle", monthlyData |-> <<>>,
     categories |-> <<>>, lastWindow |-> <<>>, predictions |-> <<>>,
     raw |-> <<>>, raised |-> FALSE, report |-> NoReport, met |-> FALSE]

InFlight(c) == c.pc \in {"training", "predicting"}

\* lines 572-573 and 913: the month map and the category set are created
\* by each extractFeatures call
OwnFeaturesMutant(cs, i) ==
    ExtractFrom(cs[i].transactions,
                [monthlyData |-> cs[Other(i)].monthlyData,
                 categories |-> cs[Other(i)].categories])
OwnFeatures(cs, i) == extractFeatures(cs[i].transactions)

InitCalls ==
    /\ calls \in [CallIds -> {NewCall(l) : l \in CallLists}]
    /\ transactions = Argument(FALSE, <<>>)
    /\ InitPipe
    /\ sm = SmUnused
    /\ ex = ExUnused
    /\ cache = CacheUnused
    /\ app = AppUnused
    /\ st = StUnused

\* invocation i takes a step: c is its state after it
CallStep(i, c) ==
    /\ calls' = [calls EXCEPT
                    ![i] = [c EXCEPT !.met = @ \/ InFlight(calls[Other(i)])]]
    /\ UNCHANGED <<pipeVars, sm, ex, cache, app, st>>

\* lines 934-1056 for invocation i
CallFinish(c, mlp, raised) ==
    [c EXCEPT !.pc = "done", !.raised = raised, !.lastWindow = <<>>,
              !.predictions = <<>>,
              !.report = Analysis(c.transactions, c.monthlyData, c.categories,
                                  mlp)]

\* lines 905-925
CallStart(i) ==
    /\ calls[i].pc = "idle"
    /\ LET f == OwnFeatures(calls, i)
       IN  CallStep(i, [calls[i] EXCEPT
                            !.monthlyData = f.monthlyData,
                            !.categories = f.categories,
                            !.pc = IF Len(calls[i].transactions) = 0
                                      \/ DOMAIN f.monthlyData = {}
                                   THEN "failed" ELSE "training"])

\* lines 748-774 (null) or 779-821 (model.fit resolves)
CallTrain(i) ==
    /\ calls[i].pc = "training"
    /\ LET c == calls[i]
       IN  IF Trains(c.monthlyData)
           THEN CallStep(i, [c EXCEPT
                                !.pc = "predicting",
                                !.lastWindow =
                                    FirstWindow(c.monthlyData,
                                                SortedKeys(DOMAIN c.monthlyData))])
           ELSE CallStep(i, CallFinish(c, Null, FALSE))

\* lines 779-799 raise, lines 930-932
CallTrainFail(i) ==
    /\ calls[i].pc = "training"
    /\ Trains(calls[i].monthlyData)
    /\ CallStep(i, CallFinish(calls[i], Null, TRUE))

\* lines 824-841, and 843-845 after the third round
CallPredict(i, values) ==
    /\ calls[i].pc = "predicting"
    /\ LET c == calls[i]
           p == [cost |-> Clamp(values[1]), revenue |-> Clamp(values[2])]
           all == Append(c.predictions, p)
           d == [c EXCEPT !.raw = Append(@, values)]
       IN  IF Len(all) = 3
           THEN CallStep(i, CallFinish(d, all, FALSE))
           ELSE CallStep(i, [d EXCEPT !.predictions = all,
                                      !.lastWindow = ShiftWindow(@, p)])

\* lines 825-827 raise, lines 930-932
CallPredictFail(i) ==
    /\ calls[i].pc = "predicting"
    /\ CallStep(i, CallFinish(calls[i], Null, TRUE))

NextCalls ==
    \E i \in CallIds :
        \/ CallStart(i)
        \/ CallTrain(i)
        \/ CallTrainFail(i)
        \/ \E v \in RawOutputs : CallPredict(i, <<v, v>>)
        \/ CallPredictFail(i)

SpecCalls == InitCalls /\ [][NextCalls]_vars

-----------------------------------------------------------------------------
(* The App component, users.js 50-386: the cards, the transactions of the  *)
(* selected card and the sweep of the scheduled transactions.  The handlers *)
(* run one after another, each to its end, with the renders and effects it  *)
(* causes.                                                                  *)
(* app.balance and app.txs are the store (current_amount of the cards       *)
(* documents, the transactions documents); app.cards, app.selectedCardId    *)
(* and app.transactions are the React state; app.timer is what the callback *)
(* of setInterval sees of that state: the values of the render in which     *)
(* the effect of lines 219-227 last ran.  Times are in units of the sweep   *)
(* period.  Cards carry no limits and no plans.                             *)

MaxNow == 2
MaxAppTx == 2
CardIds == {1, 2}
OpeningAmounts == {10}
TxAmounts == {1, 2}
TxTypes == {"cost", "revenue"}
\* a transaction is dated now or one period ahead
Ahead == {0, 1}

Closure(cs, txl, sel) ==
    [cards |-> cs, transactions |-> txl, selectedCardId |-> sel]

\* the closure of the handlers the user triggers: the latest render
Latest == Closure(app.cards, app.transactions, app.selectedCardId)

IdsOf(cs) == {cs[i].id : i \in DOMAIN cs}

\* cards.find((c) => c.id === id).amount
CardAmount(cs, id) == cs[CHOOSE i \in DOMAIN cs : cs[i].id = id].amount

\* prev.map((c) => (c.id === id ? { ...c, amount } : c))
SetAmount(cs, id, amount) ==
    [i \in DOMAIN cs |->
        IF cs[i].id = id THEN [cs[i] EXCEPT !.amount = amount] ELSE cs[i]]

\* lines 155-157 and 350
Applied(amount, tx) ==
    IF tx.type = "cost" THEN amount - tx.amount ELSE amount + tx.amount

\* lines 374-377
Reversed(amount, tx) ==
    IF tx.type = "cost" THEN amount + tx.amount ELSE amount - tx.amount

\* .sort((a, b) => new Date(b.date) - new Date(a.date)), a stable sort
RECURSIVE SortByDateDesc(_)
SortByDateDesc(s) ==
    IF Len(s) <= 1 THEN s
    ELSE LET front == SortByDateDesc(SubSeq(s, 1, Len(s) - 1))
             x == s[Len(s)]
             k == Cardinality({i \in DOMAIN front : front[i].date >= x.date})
         IN  SubSeq(front, 1, k) \o <<x>> \o SubSeq(front, k + 1, Len(front))

RECURSIVE ByIdDesc(_)
ByIdDesc(set) ==
    IF set = {} THEN <<>>
    ELSE LET x == CHOOSE x \in set : \A y \in set : y.id <= x.id
         IN  <<x>> \o ByIdDesc(set \ {x})

\* line 197: where("cardId", "==", selectedCardId), orderBy("date", "desc");
\* equal dates come in the order of the document ids
Fetched(id) == SortByDateDesc(ByIdDesc({t \in app.txs : t.cardId = id}))

\* lines 139-143: the transactions of a card the sweep has to process
Due(id) ==
    {t \in app.txs : /\ t.cardId = id
                     /\ t.scheduled
                     /\ ~t.isAffect
                     /\ t.date <= app.now}

DueCards(c) == {id \in IdsOf(c.cards) : Due(id) # {}}

\* For each card with transactions to process, the one processed last: the
\* store returns the documents in the order of their generated ids.
LastChoices(c) ==
    {last \in [DueCards(c) -> app.txs] : \A id \in DueCards(c) : last[id] \in Due(id)}

\* lines 171-181: the local list of the closure with the processed ones marked
MarkedLocally(c) ==
    [i \in DOMAIN c.transactions |->
        IF \E t \in Due(c.selectedCardId) : t.id = c.transactions[i].id
        THEN [c.transactions[i] EXCEPT !.isAffect = TRUE]
        ELSE c.transactions[i]]

\* processScheduledTransactions, lines 121-186, called with the closure c on
\* the state a (the store is read from app).  Every transaction to process
\* is marked; cardToUpdate is a card of the closure, so every balance written
\* is the closure's amount with one transaction applied, and the last one
\* written stays.
Sweep(a, c, last) ==
    [a EXCEPT
        !.txs = {IF t.cardId \in IdsOf(c.cards) /\ t \in Due(t.cardId)
                 THEN [t EXCEPT !.isAffect = TRUE] ELSE t : t \in app.txs},
        !.balance = [id \in DOMAIN a.balance |->
                        IF id \in DueCards(c)
                        THEN Applied(CardAmount(c.cards, id), last[id])
                        ELSE a.balance[id]],
        !.cards = [i \in DOMAIN a.cards |->
                      IF a.cards[i].id \in DueCards(c)
                      THEN [a.cards[i] EXCEPT !.amount =
                               Applied(CardAmount(c.cards, a.cards[i].id),
                                       last[a.cards[i].id])]
                      ELSE a.cards[i]],
        !.transactions = IF c.selectedCardId \in DueCards(c)
                         THEN MarkedLocally(c) ELSE a.transactions]

\* the interval of lines 222-224 fires
processScheduledTransactions ==
    /\ app.pc = "ready"
    /\ app.timer.cards # <<>>
    /\ \E last \in LastChoices(app.timer) : app' = Sweep(app, app.timer, last)
    /\ UNCHANGED <<pipeVars, sm, ex, cache, calls, st>>

\* addTransaction, lines 265-360
addTransaction(cardId, type, amount, ahead) ==
    /\ app.pc = "ready"
    /\ app.added < MaxAppTx
    /\ cardId \in IdsOf(app.cards)
    /\ LET date == app.now + ahead
           isFutureTransaction == date > app.now
           newTx == [id |-> app.added + 1, cardId |-> cardId, type |-> type,
                     amount |-> amount, date |-> date,
                     scheduled |-> isFutureTransaction,
                     isAffect |-> ~isFutureTransaction]
           updatedAmount == Applied(CardAmount(app.cards, cardId), newTx)
       IN  app' = [app EXCEPT
               !.added = @ + 1,
               !.txs = @ \cup {newTx},
               !.transactions = IF cardId = app.selectedCardId
                                THEN SortByDateDesc(<<newTx>> \o @) ELSE @,
               !.balance = IF newTx.isAffect
                           THEN [@ EXCEPT ![cardId] = updatedAmount] ELSE @,
               !.cards = IF newTx.isAffect
                         THEN SetAmount(@, cardId, updatedAmount) ELSE @]
    /\ UNCHANGED <<pipeVars, sm, ex, cache, calls, st>>

\* deleteTransaction, lines 362-386, for a transaction of the list shown
\* (line 488)
deleteTransaction(i) ==
    /\ app.pc = "ready"
    /\ i \in DOMAIN app.transactions
    /\ LET transaction == app.transactions[i]
           known == transaction.cardId \in IdsOf(app.cards)
           updatedAmount ==
               Reversed(CardAmount(app.cards, transaction.cardId), transaction)
       IN  /\ transaction.cardId = app.selectedCardId
           /\ app' = [app EXCEPT
                  !.txs = {t \in @ : t.id # transaction.id},
                  !.transactions =
                      SelectSeq(@, LAMBDA t : t.id # transaction.id),
                  !.balance = IF transaction.isAffect /\ known
                              THEN [@ EXCEPT ![transaction.cardId] =
                                       updatedAmount]
                              ELSE @,
                  !.cards = IF transaction.isAffect /\ known
                            THEN SetAmount(@, transaction.cardId,
                                           updatedAmount)
                            ELSE @]
    /\ UNCHANGED <<pipeVars, sm, ex, cache, calls, st>>

\* loadTransactions, lines 189-216, in the render with the closure c
Loaded(a, c, last) ==
    Sweep([a EXCEPT !.transactions = Fetched(c.selectedCardId)], c, last)

\* addCard, lines 229-263, with the effects of the renders it causes: the
\* interval is set again because cards.length changed, and the transactions
\* of the new card are loaded.  Whether setCards and setSelectedCardId, called
\* after an await, give one render or two depends on the version of React:
\* with two, the interval's closure still has the card selected before.
addCard(id, amount, batched) ==
    /\ app.pc = "ready"
    /\ id \notin IdsOf(app.cards)
    /\ LET cs == app.cards \o <<[id |-> id, amount |-> amount]>>
           added == [app EXCEPT
                        !.cards = cs,
                        !.selectedCardId = id,
                        !.balance = (id :> amount) @@ @,
                        !.opening = (id :> amount) @@ @,
                        !.timer = Closure(cs, app.transactions,
                                          IF batched THEN id
                                          ELSE app.selectedCardId)]
           c == Closure(cs, app.transactions, id)
       IN  \E last \in LastChoices(c) : app' = Loaded(added, c, last)
    /\ UNCHANGED <<pipeVars, sm, ex, cache, calls, st>>

\* a card is chosen in the CardSelector (lines 453 and 482): its
\* transactions are loaded
selectCard(id) ==
    /\ app.pc = "ready"
    /\ id \in IdsOf(app.cards)
    /\ id # app.selectedCardId
    /\ LET c == Closure(app.cards, app.transactions, id)
       IN  \E last \in LastChoices(c) :
              app' = Loaded([app EXCEPT !.selectedCardId = id], c, last)
    /\ UNCHANGED <<pipeVars, sm, ex, cache, calls, st>>

\* one period of the interval passes
TimePasses ==
    /\ app.pc = "ready"
    /\ app.now < MaxNow
    /\ app' = [app EXCEPT !.now = @ + 1]
    /\ UNCHANGED <<pipeVars, sm, ex, cache, calls, st>>

-----------------------------------------------------------------------------
(* SpecApp: the App component after loadCards (lines 67-118) has fetched   *)
(* the one card of the user, which has no transactions yet.                *)

InitApp ==
    /\ \E amount \in OpeningAmounts :
          LET cs == <<[id |-> 1, amount |-> amount]>>
          IN  app = [pc |-> "ready", now |-> 0, added |-> 0,
                     cards |-> cs, selectedCardId |-> 1,
                     transactions |-> <<>>,
                     balance |-> (1 :> amount), opening |-> (1 :> amount),
                     txs |-> {}, timer |-> Closure(cs, <<>>, 1)]
    /\ transactions = Argument(FALSE, <<>>)
    /\ InitPipe
    /\ sm = SmUnused
    /\ ex = ExUnused
    /\ cache = CacheUnused
    /\ calls = CallsUnused
    /\ st = StUnused

NextApp ==
    \/ \E cardId \in CardIds, type \in TxTypes, amount \in TxAmounts,
          ahead \in Ahead :
          addTransaction(cardId, type, amount, ahead)
    \/ \E i \in 1..MaxAppTx : deleteTransaction(i)
    \/ processScheduledTransactions
    \/ \E id \in CardIds, amount \in OpeningAmounts, batched \in BOOLEAN :
          addCard(id, amount, batched)
    \/ \E id \in CardIds : selectCard(id)
    \/ TimePasses

SpecApp == InitApp /\ [][NextApp]_vars

\* the interval keeps firing
SpecAppFair == SpecApp /\ WF_vars(processScheduledTransactions)

-----------------------------------------------------------------------------
(* SpecRace: two handlers of the App component on one card whose stretches  *)
(* between awaits interleave: the sweep started by the interval, the sweep  *)
(* started by loadTransactions, addTransaction and deleteTransaction.  The  *)
(* world is the app record of SpecApp with ops, the locals of the handlers  *)
(* in flight: pc, closure (the render the handler was created in), batch    *)
(* (transactionsToProcess), todo (what is left of it) and tx (newTx or      *)
(* transaction).  A store request takes effect when its await resumes.      *)

Sweeps == {"interval", "load"}
Handlers == Sweeps \cup {"add", "delete"}
NoClosure == <<>>
NoTx == <<>>
Idle == [pc |-> "idle", closure |-> NoClosure, batch |-> <<>>, todo |-> <<>>,
         tx |-> NoTx]
Absent == [Idle EXCEPT !.pc = "absent"]

ClosureIn(w) == Closure(w.cards, w.transactions, w.selectedCardId)

RECURSIVE ByIdAsc(_)
ByIdAsc(set) ==
    IF set = {} THEN <<>>
    ELSE LET x == CHOOSE x \in set : \A y \in set : x.id <= y.id
         IN  <<x>> \o ByIdAsc(set \ {x})

\* lines 121-129: the sweep is called; it awaits getDocs
SweepStarted(w, p) ==
    [w EXCEPT !.ops[p] =
        [@ EXCEPT !.pc = "fetching",
                  !.closure = IF p = "interval" THEN w.timer ELSE ClosureIn(w)]]

\* lines 129-145: getDocs has answered; transactionsToProcess of the card,
\* in the order of the documents
SweepFetched(w, p) ==
    LET card == w.ops[p].closure.cards[1]
        batch == ByIdAsc({t \in w.txs : /\ t.cardId = card.id
                                        /\ t.scheduled
                                        /\ ~t.isAffect
                                        /\ t.date <= w.now})
    IN  [w EXCEPT !.ops[p] =
            [@ EXCEPT !.pc = IF batch = <<>> THEN "done" ELSE "marking",
                      !.batch = batch, !.todo = batch]]

\* lines 148-150: updateDoc of the transaction has answered; it raises for
\* a document that is gone, and the catch of line 183 ends the sweep
SweepMarked(w, p) ==
    LET tx == Head(w.ops[p].todo)
    IN  IF \E t \in w.txs : t.id = tx.id
        THEN [w EXCEPT
                !.txs = {IF t.id = tx.id THEN [t EXCEPT !.isAffect = TRUE]
                         ELSE t : t \in w.txs},
                !.ops[p].pc = "writing"]
        ELSE [w EXCEPT !.ops[p].pc = "done"]

\* lines 153-181: updateDoc of the card has answered, setCards; then the
\* next transaction, or the local list of the closure with the batch marked
SweepWritten(w, p) ==
    LET op == w.ops[p]
        tx == Head(op.todo)
        updatedAmount == Applied(CardAmount(op.closure.cards, tx.cardId), tx)
        last == Len(op.todo) = 1
    IN  [w EXCEPT
            !.balance[tx.cardId] = updatedAmount,
            !.cards = SetAmount(@, tx.cardId, updatedAmount),
            !.transactions =
                IF last /\ tx.cardId = op.closure.selectedCardId
                THEN [i \in DOMAIN op.closure.transactions |->
                        IF \E k \in DOMAIN op.batch :
                              op.batch[k].id = op.closure.transactions[i].id
                        THEN [op.closure.transactions[i]
                                 EXCEPT !.isAffect = TRUE]
                        ELSE op.closure.transactions[i]]
                ELSE @,
            !.ops[p] = [@ EXCEPT !.pc = IF last THEN "done" ELSE "marking",
                                 !.todo = Tail(@)]]

\* lines 265-340: addTransaction is called with tx (no limits, no plans);
\* it awaits addTransactionToTable
AddStarted(w, tx) ==
    LET isFutureTransaction == tx.date > w.now
    IN  [w EXCEPT !.ops["add"] =
            [@ EXCEPT !.pc = "adding",
                      !.closure = ClosureIn(w),
                      !.tx = [tx EXCEPT !.scheduled = isFutureTransaction,
                                        !.isAffect = ~isFutureTransaction]]]

\* lines 340-351: the transaction is stored, setTransactions; updateDoc of
\* the card is awaited when the transaction affects the balance
AddStored(w) ==
    LET op == w.ops["add"]
    IN  [w EXCEPT
            !.txs = @ \cup {op.tx},
            !.transactions = IF op.tx.cardId = op.closure.selectedCardId
                             THEN SortByDateDesc(<<op.tx>> \o @) ELSE @,
            !.ops["add"].pc = IF op.tx.isAffect THEN "writing" ELSE "done"]

\* lines 348-353: card and updatedAmount come from the closure
AddWritten(w) ==
    LET op == w.ops["add"]
        updatedAmount == Applied(CardAmount(op.closure.cards, op.tx.cardId),
                                 op.tx)
    IN  [w EXCEPT
            !.balance[op.tx.cardId] = updatedAmount,
            !.cards = SetAmount(@, op.tx.cardId, updatedAmount),
            !.ops["add"].pc = "done"]

\* lines 362-366: deleteTransaction is called for the transaction id of the
\* list shown; it awaits deleteDoc
DeleteStarted(w, id) ==
    LET found == {i \in DOMAIN w.transactions : w.transactions[i].id = id}
    IN  IF found = {} THEN [w EXCEPT !.ops["delete"].pc = "done"]
        ELSE [w EXCEPT !.ops["delete"] =
                [@ EXCEPT !.pc = "deleting",
                          !.closure = ClosureIn(w),
                          !.tx = w.transactions[CHOOSE i \in found : TRUE]]]

\* lines 366-378: the document is deleted, setTransactions; updateDoc of
\* the card is awaited when the transaction of the closure has isAffect
DeleteDeleted(w) ==
    LET op == w.ops["delete"]
    IN  [w EXCEPT
            !.txs = {t \in @ : t.id # op.tx.id},
            !.transactions = SelectSeq(@, LAMBDA t : t.id # op.tx.id),
            !.ops["delete"].pc = IF op.tx.isAffect THEN "writing" ELSE "done"]

\* lines 372-380
DeleteWritten(w) ==
    LET op == w.ops["delete"]
        updatedAmount == Reversed(CardAmount(op.closure.cards, op.tx.cardId),
                                  op.tx)
    IN  [w EXCEPT
            !.balance[op.tx.cardId] = updatedAmount,
            !.cards = SetAmount(@, op.tx.cardId, updatedAmount),
            !.ops["delete"].pc = "done"]

\* the next stretch of handler p
StepOf(w, p) ==
    LET at == w.ops[p].pc
    IN  IF p \in Sweeps
        THEN IF at = "idle" THEN SweepStarted(w, p)
             ELSE IF at = "fetching" THEN SweepFetched(w, p)
             ELSE IF at = "marking" THEN SweepMarked(w, p)
             ELSE SweepWritten(w, p)
        ELSE IF p = "add"
        THEN IF at = "idle" THEN AddStarted(w, w.input)
             ELSE IF at = "adding" THEN AddStored(w)
             ELSE AddWritten(w)
        ELSE IF at = "idle" THEN DeleteStarted(w, w.input.id)
             ELSE IF at = "deleting" THEN DeleteDeleted(w)
             ELSE DeleteWritten(w)

\* handler p run alone from its call to its end
RECURSIVE RunToEnd(_, _)
RunToEnd(w, p) ==
    IF w.ops[p].pc = "done" THEN w ELSE RunToEnd(StepOf(w, p), p)

Taking(w) == {p \in Handlers : w.ops[p].pc # "absent"}

\* the stored balances the handlers of w give when run one after another
SerialBalances(w) ==
    UNION {{RunToEnd(RunToEnd(w, p), q).balance[1] : q \in Taking(w) \ {p}} :
              p \in Taking(w)}

SweepStart(p) ==
    /\ app.pc = "race"
    /\ app.ops[p].pc = "idle"
    /\ app' = SweepStarted(app, p)
    /\ UNCHANGED <<pipeVars, sm, ex, cache, calls, st>>

SweepFetch(p) ==
    /\ app.pc = "race"
    /\ app.ops[p].pc = "fetching"
    /\ app' = SweepFetched(app, p)
    /\ UNCHANGED <<pipeVars, sm, ex, cache, calls, st>>

SweepMark(p) ==
    /\ app.pc = "race"
    /\ app.ops[p].pc = "marking"
    /\ app' = SweepMarked(app, p)
    /\ UNCHANGED <<pipeVars, sm, ex, cache, calls, st>>

SweepWrite(p) ==
    /\ app.pc = "race"
    /\ app.ops[p].pc = "writing"
    /\ app' = SweepWritten(app, p)
    /\ UNCHANGED <<pipeVars, sm, ex, cache, calls, st>>

AddStart ==
    /\ app.pc = "race"
    /\ app.ops["add"].pc = "idle"
    /\ app' = AddStarted(app, app.input)
    /\ UNCHANGED <<pipeVars, sm, ex, cache, calls, st>>

AddStore ==
    /\ app.pc = "race"
    /\ app.ops["add"].pc = "adding"
    /\ app' = AddStored(app)
    /\ UNCHANGED <<pipeVars, sm, ex, cache, calls, st>>

AddWrite ==
    /\ app.pc = "race"
    /\ app.ops["add"].pc = "writing"
    /\ app' = AddWritten(app)
    /\ UNCHANGED <<pipeVars, sm, ex, cache, calls, st>>

DeleteStart ==
    /\ app.pc = "race"
    /\ app.ops["delete"].pc = "idle"
    /\ app' = DeleteStarted(app, app.input.id)
    /\ UNCHANGED <<pipeVars, sm, ex, cache, calls, st>>

DeleteDelete ==
    /\ app.pc = "race"
    /\ app.ops["delete"].pc = "deleting"
    /\ app' = DeleteDeleted(app)
    /\ UNCHANGED <<pipeVars, sm, ex, cache, calls, st>>

DeleteWrite ==
    /\ app.pc = "race"
    /\ app.ops["delete"].pc = "writing"
    /\ app' = DeleteWritten(app)
    /\ UNCHANGED <<pipeVars, sm, ex, cache, calls, st>>

\* The card was opened with 10; an applied revenue of 1 (id 3) and one or
\* two scheduled costs whose date has come (ids 1 and 2) are stored, and the
\* page was loaded after them, so state and interval closure are up to date.
RaceTx(id, type, amount, date, scheduled, isAffect) ==
    [id |-> id, cardId |-> 1, type |-> type, amount |-> amount, date |-> date,
     scheduled |-> scheduled, isAffect |-> isAffect]

RaceStores ==
    {{RaceTx(3, "revenue", 1, 0, FALSE, TRUE)} \cup scheduledOnes :
        scheduledOnes \in
            {{RaceTx(1, "cost", 2, 1, TRUE, FALSE)},
             {RaceTx(1, "cost", 2, 1, TRUE, FALSE),
              RaceTx(2, "cost", 4, 1, TRUE, FALSE)}}}

\* what addTransaction is called with, or the transaction deleteTransaction
\* is called for
RaceInputs(taking, stored) ==
    IF "add" \in taking
    THEN {RaceTx(4, type, 1, date, FALSE, FALSE) :
             type \in TxTypes, date \in {1, 2}}
    ELSE IF "delete" \in taking THEN stored
    ELSE {NoTx}

Races == {taking \in SUBSET Handlers : Cardinality(taking) = 2}

InitRace ==
    /\ \E taking \in Races, stored \in RaceStores :
          \E input \in RaceInputs(taking, stored) :
              LET cs == <<[id |-> 1, amount |-> 11]>>
                  local == SortByDateDesc(ByIdDesc(stored))
                  w == [pc |-> "race", now |-> 1, cards |-> cs,
                        selectedCardId |-> 1, transactions |-> local,
                        balance |-> (1 :> 11), txs |-> stored,
                        timer |-> Closure(cs, local, 1), input |-> input,
                        ops |-> [p \in Handlers |->
                                    IF p \in taking THEN Idle ELSE Absent]]
              IN  app = [pc |-> "race", now |-> w.now, cards |-> w.cards,
                         selectedCardId |-> w.selectedCardId,
                         transactions |-> w.transactions,
                         balance |-> w.balance, txs |-> w.txs,
                         timer |-> w.timer, input |-> w.input, ops |-> w.ops,
                         serial |-> SerialBalances(w)]
    /\ transactions = Argument(FALSE, <<>>)
    /\ InitPipe
    /\ sm = SmUnused
    /\ ex = ExUnused
    /\ cache = CacheUnused
    /\ calls = CallsUnused
    /\ st = StUnused

NextRace ==
    \/ \E p \in Sweeps : SweepStart(p)
    \/ \E p \in Sweeps : SweepFetch(p)
    \/ \E p \in Sweeps : SweepMark(p)
    \/ \E p \in Sweeps : SweepWrite(p)
    \/ AddStart
    \/ AddStore
    \/ AddWrite
    \/ DeleteStart
    \/ DeleteDelete
    \/ DeleteWrite

SpecRace == InitRace /\ [][NextRace]_vars

-----------------------------------------------------------------------------
(* SpecModal: CardLimitModal, opened by the App component for the selected *)
(* card (users.js 527-535).  CardPlanModal and CardWishModal are the same  *)
(* code with plans and wishes for limits (wishes keep the amount in        *)
(* targetAmount).  The world is the app record with pc "modal": card is    *)
(* card.limits, open tells whether the modal is mounted, and limits,       *)
(* newLimitMonth, newLimitAmount and editingMonth are its state.           *)

LimitMonths == {"2025-01", "2025-02"}
AmountTexts == {"0", "5", "7"}
NullMonth == "null"

\* Number(newLimitAmount), line 46, and limit.amount.toString(), line 29
NumberOf(text) == CASE text = "0" -> 0 [] text = "5" -> 5 [] text = "7" -> 7
ToText(n) == CASE n = 0 -> "0" [] n = 5 -> "5" [] n = 7 -> "7"

\* limits.find(l => l.month === month), line 41
LimitExists(w, month) == \E i \in DOMAIN w.limits : w.limits[i].month = month

\* lines 33-37
CancelEdit(w) ==
    [w EXCEPT !.newLimitMonth = "", !.newLimitAmount = "",
              !.editingMonth = NullMonth]

\* lines 62-64
DeleteLimit(w, month) ==
    [w EXCEPT !.limits = SelectSeq(w.limits, LAMBDA l : l.month # month)]

\* lines 6-9 and the effect of lines 11-15 on mount
OpenModal ==
    /\ app.pc = "modal"
    /\ ~app.open
    /\ app' = [CancelEdit(app) EXCEPT !.open = TRUE, !.limits = app.card]
    /\ UNCHANGED <<pipeVars, sm, ex, cache, calls, st>>

\* the effect of lines 11-15 when the card object changes while the modal
\* is open (the App replaces it on every balance change)
CardChanges ==
    /\ app.pc = "modal"
    /\ app.open
    /\ app.limits # app.card
    /\ app' = [app EXCEPT !.limits = app.card]
    /\ UNCHANGED <<pipeVars, sm, ex, cache, calls, st>>

\* line 102; the input is disabled while editing (line 103)
setNewLimitMonth(month) ==
    /\ app.pc = "modal"
    /\ app.open
    /\ app.editingMonth = NullMonth
    /\ app.newLimitMonth # month
    /\ app' = [app EXCEPT !.newLimitMonth = month]
    /\ UNCHANGED <<pipeVars, sm, ex, cache, calls, st>>

\* line 118
setNewLimitAmount(text) ==
    /\ app.pc = "modal"
    /\ app.open
    /\ app.newLimitAmount # text
    /\ app' = [app EXCEPT !.newLimitAmount = text]
    /\ UNCHANGED <<pipeVars, sm, ex, cache, calls, st>>

\* lines 23-31, from the edit button of entry i (line 164)
handleEditLimit(i) ==
    /\ app.pc = "modal"
    /\ app.open
    /\ i \in DOMAIN app.limits
    /\ app.editingMonth # app.limits[i].month
    /\ app' = [app EXCEPT !.newLimitMonth = app.limits[i].month,
                          !.newLimitAmount = ToText(app.limits[i].amount),
                          !.editingMonth = app.limits[i].month]
    /\ UNCHANGED <<pipeVars, sm, ex, cache, calls, st>>

\* lines 33-37, from the Cancel button, shown while editing (line 123)
handleCancelEdit ==
    /\ app.pc = "modal"
    /\ app.open
    /\ app.editingMonth # NullMonth
    /\ app' = CancelEdit(app)
    /\ UNCHANGED <<pipeVars, sm, ex, cache, calls, st>>

\* handleAddLimit without the check of lines 50-53
handleAddLimitMutant ==
    /\ app.pc = "modal"
    /\ app.open
    /\ app.newLimitMonth # "" /\ app.newLimitAmount # ""
    /\ LET limitExists == LimitExists(app, app.newLimitMonth)
           amount == NumberOf(app.newLimitAmount)
       IN  IF limitExists /\ app.editingMonth = app.newLimitMonth
           THEN app' = CancelEdit([app EXCEPT !.limits =
                          [i \in DOMAIN @ |->
                              IF @[i].month = app.newLimitMonth
                              THEN [@[i] EXCEPT !.amount = amount]
                              ELSE @[i]]])
           ELSE app' = CancelEdit([app EXCEPT !.limits =
                          @ \o <<[month |-> app.newLimitMonth,
                                  amount |-> amount]>>])
    /\ UNCHANGED <<pipeVars, sm, ex, cache, calls, st>>

\* lines 39-60, from the Add/Update button, enabled when both fields are
\* filled (line 133)
handleAddLimit ==
    /\ app.pc = "modal"
    /\ app.open
    /\ app.newLimitMonth # "" /\ app.newLimitAmount # ""
    /\ LET limitExists == LimitExists(app, app.newLimitMonth)
           amount == NumberOf(app.newLimitAmount)
       IN  IF limitExists /\ app.editingMonth = app.newLimitMonth
           THEN app' = CancelEdit([app EXCEPT !.limits =
                          [i \in DOMAIN @ |->
                              IF @[i].month = app.newLimitMonth
                              THEN [@[i] EXCEPT !.amount = amount]
                              ELSE @[i]]])
           ELSE IF limitExists /\ app.editingMonth # app.newLimitMonth
           THEN app' = app
           ELSE app' = CancelEdit([app EXCEPT !.limits =
                          @ \o <<[month |-> app.newLimitMonth,
                                  amount |-> amount]>>])
    /\ UNCHANGED <<pipeVars, sm, ex, cache, calls, st>>

\* the delete button of entry i, lines 178-183, with handleDeleteLimit,
\* lines 62-64
handleDeleteLimit(i) ==
    /\ app.pc = "modal"
    /\ app.open
    /\ i \in DOMAIN app.limits
    /\ LET month == app.limits[i].month
       IN  app' = DeleteLimit(IF app.editingMonth = month
                              THEN CancelEdit(app) ELSE app, month)
    /\ UNCHANGED <<pipeVars, sm, ex, cache, calls, st>>

\* lines 66-75 when updateDoc succeeds: onUpdate stores the list in the
\* card and onClose unmounts the modal
handleSave ==
    /\ app.pc = "modal"
    /\ app.open
    /\ app' = [app EXCEPT !.card = app.limits, !.open = FALSE]
    /\ UNCHANGED <<pipeVars, sm, ex, cache, calls, st>>

\* lines 83 and 202
onClose ==
    /\ app.pc = "modal"
    /\ app.open
    /\ app' = [app EXCEPT !.open = FALSE]
    /\ UNCHANGED <<pipeVars, sm, ex, cache, calls, st>>

\* a card without limits (users.js 253), its modal not opened yet
InitModal ==
    /\ app = [pc |-> "modal", open |-> FALSE, card |-> <<>>, limits |-> <<>>,
              newLimitMonth |-> "", newLimitAmount |-> "",
              editingMonth |-> NullMonth]
    /\ transactions = Argument(FALSE, <<>>)
    /\ InitPipe
    /\ sm = SmUnused
    /\ ex = ExUnused
    /\ cache = CacheUnused
    /\ calls = CallsUnused
    /\ st = StUnused

NextModal ==
    \/ OpenModal
    \/ CardChanges
    \/ \E month \in LimitMonths \cup {""} : setNewLimitMonth(month)
    \/ \E text \in AmountTexts \cup {""} : setNewLimitAmount(text)
    \/ \E i \in 1..Cardinality(LimitMonths) : handleEditLimit(i)
    \/ handleCancelEdit
    \/ handleAddLimit
    \/ \E i \in 1..Cardinality(LimitMonths) : handleDeleteLimit(i)
    \/ handleSave
    \/ onClose

SpecModal == InitModal /\ [][NextModal]_vars

-----------------------------------------------------------------------------
(* SpecConfirm: addTransaction, users.js 265-360, on cards that carry      *)
(* limits and plans, with the answers the user gives to window.confirm.    *)
(* The world is the app record of SpecApp with pc "confirm"; last tells    *)
(* what the last call was given and which dialogs it showed, turn changes  *)
(* with every call.                                                        *)

MaxConfirmTx == 2

\* card.limits.find((l) => l.month === monthKey), lines 278-279, and
\* card.plans.find(...), lines 307-308: the entries found
Found(entries, monthKey) ==
    {entries[i] : i \in {j \in DOMAIN entries : entries[j].month = monthKey}}

CardOf(cs, id) == cs[CHOOSE i \in DOMAIN cs : cs[i].id = id]

\* lines 283-291: what the local list holds of applied costs of the card in
\* the month
RECURSIVE CurrentMonthSpending(_, _, _)
CurrentMonthSpending(txl, cardId, monthKey) ==
    IF txl = <<>> THEN 0
    ELSE LET t == Head(txl)
             counted == /\ t.cardId = cardId
                        /\ t.type = "cost"
                        /\ t.isAffect
                        /\ MonthKey(t.date) = monthKey
         IN  (IF counted THEN t.amount ELSE 0)
                 + CurrentMonthSpending(Tail(txl), cardId, monthKey)

\* lines 275-295: the limit dialog is shown
AsksLimit(c, tx, isFutureTransaction) ==
    /\ tx.type = "cost"
    /\ ~isFutureTransaction
    /\ tx.cardId \in IdsOf(c.cards)
    /\ \E limit \in Found(CardOf(c.cards, tx.cardId).limits, MonthKey(tx.date)) :
          CurrentMonthSpending(c.transactions, tx.cardId, MonthKey(tx.date))
              + tx.amount > limit.amount

\* lines 304-319: the plan dialog is shown
AsksPlan(c, tx, isFutureTransaction) ==
    /\ ~isFutureTransaction
    /\ tx.cardId \in IdsOf(c.cards)
    /\ \E plan \in Found(CardOf(c.cards, tx.cardId).plans, MonthKey(tx.date)) :
          Applied(CardAmount(c.cards, tx.cardId), tx) < plan.amount

\* the dialogs the call shows with the answers given: the plan dialog comes
\* only when the limit dialog was not declined (line 298)
Dialogs(c, tx, isFutureTransaction, answers) ==
    LET limit == IF AsksLimit(c, tx, isFutureTransaction)
                 THEN <<[dialog |-> "limit", answer |-> answers.limit]>>
                 ELSE <<>>
        plan == IF AsksPlan(c, tx, isFutureTransaction)
                THEN <<[dialog |-> "plan", answer |-> answers.plan]>>
                ELSE <<>>
    IN  IF limit # <<>> /\ ~answers.limit THEN limit ELSE limit \o plan

\* a declined plan dialog does not stop the call
CancelledMutant(dialogs) ==
    \E i \in DOMAIN dialogs : dialogs[i].dialog = "limit" /\ ~dialogs[i].answer

\* lines 297-299 and 322-324: return, the user cancelled
Cancelled(dialogs) == \E i \in DOMAIN dialogs : ~dialogs[i].answer

\* addTransaction, lines 265-360, submitted from AddTransactionModal for any
\* card of the user
addTransactionConfirmed(cardId, type, amount, ahead, answers) ==
    /\ app.pc = "confirm"
    /\ app.added < MaxConfirmTx
    /\ LET date == app.now + ahead
           isFutureTransaction == date > app.now
           newTx == [id |-> app.added + 1, cardId |-> cardId, type |-> type,
                     amount |-> amount, date |-> date,
                     scheduled |-> isFutureTransaction,
                     isAffect |-> ~isFutureTransaction]
           dialogs == Dialogs(Latest, newTx, isFutureTransaction, answers)
           updatedAmount == Applied(CardAmount(app.cards, cardId), newTx)
           called == [app EXCEPT
                         !.turn = ~@,
                         !.last = [future |-> isFutureTransaction,
                                   dialogs |-> dialogs]]
       IN  IF Cancelled(dialogs)
           THEN app' = called
           ELSE app' = [called EXCEPT
                   !.added = @ + 1,
                   !.txs = @ \cup {newTx},
                   !.transactions = IF cardId = app.selectedCardId
                                    THEN SortByDateDesc(<<newTx>> \o @) ELSE @,
                   !.balance = IF newTx.isAffect
                               THEN [@ EXCEPT ![cardId] = updatedAmount] ELSE @,
                   !.cards = IF newTx.isAffect
                             THEN SetAmount(@, cardId, updatedAmount) ELSE @]
    /\ UNCHANGED <<pipeVars, sm, ex, cache, calls, st>>

\* the clock of new Date(), line 267, moves on
ConfirmTimePasses ==
    /\ app.pc = "confirm"
    /\ app.now < MaxNow
    /\ app' = [app EXCEPT !.now = @ + 1]
    /\ UNCHANGED <<pipeVars, sm, ex, cache, calls, st>>

LimitChoices == {<<>>, <<[month |-> MonthKey(1), amount |-> 1]>>}
PlanChoices == {<<>>, <<[month |-> MonthKey(1), amount |-> 9]>>}

\* two cards of 10 with the same limits and plans, the first selected, no
\* transactions yet
InitConfirm ==
    /\ \E limits \in LimitChoices, plans \in PlanChoices :
          app = [pc |-> "confirm", now |-> 1, added |-> 0, turn |-> FALSE,
                 cards |-> [i \in CardIds |->
                               [id |-> i, amount |-> 10, limits |-> limits,
                                plans |-> plans]],
                 selectedCardId |-> 1,
                 transactions |-> <<>>,
                 balance |-> [i \in CardIds |-> 10],
                 txs |-> {},
                 last |-> [future |-> FALSE, dialogs |-> <<>>]]
    /\ transactions = Argument(FALSE, <<>>)
    /\ InitPipe
    /\ sm = SmUnused
    /\ ex = ExUnused
    /\ cache = CacheUnused
    /\ calls = CallsUnused
    /\ st = StUnused

NextConfirm ==
    \/ \E cardId \in CardIds, type \in TxTypes, amount \in TxAmounts,
          ahead \in Ahead, answers \in [limit : BOOLEAN, plan : BOOLEAN] :
          addTransactionConfirmed(cardId, type, amount, ahead, answers)
    \/ ConfirmTimePasses

SpecConfirm == InitConfirm /\ [][NextConfirm]_vars

-----------------------------------------------------------------------------
(* Properties of analyzeFinances *)

NoDataErrors == {"no-transactions", "no-valid-data"}

ReportFields ==
    {"returned", "summary", "predictions", "insights", "categoryBreakdown",
     "metadata"}

\* a series of exactly 3 values, none negative
IsForecast(s) == DOMAIN s = 1..3 /\ \A i \in 1..3 : ~Less(s[i], Zero)

\* C1: once analyzeFinances has run on a missing list, an empty list or a
\* list in which every date is unparseable, it has thrown one of the no-data
\* errors and returned no report.
C1_NoDataError ==
    (/\ pc # "idle"
     /\ \/ ~transactions.given
        \/ \A i \in DOMAIN transactions.list : transactions.list[i].date = 0)
    => (pc = "failed" /\ error \in NoDataErrors /\ report = NoReport)

C1_Witness ==
    /\ pc = "failed"
    /\ error = "no-valid-data"
    /\ Len(transactions.list) >= 2
    /\ \A i \in DOMAIN transactions.list : transactions.list[i].date = 0
    /\ report = NoReport

\* C2: in a returned report, predictions.totalCost is not all zeros when
\* summary.averageMonthlySpending > 0, and predictions.totalRevenue is not
\* all zeros when summary.averageMonthlyRevenue > 0, whichever path produced
\* the totals.
C2_TotalsNotAllZero ==
    pc = "done" =>
        /\ Greater(report.summary.averageMonthlySpending, Zero)
            => ~AllZero(report.predictions.totalCost)
        /\ Greater(report.summary.averageMonthlyRevenue, Zero)
            => ~AllZero(report.predictions.totalRevenue)

\* the regression output was used, its costs are all zero, and the guard
\* replaced them by the average
C2_Witness ==
    /\ pc = "done"
    /\ step5 = "regression"
    /\ \A i \in DOMAIN mlPredictions : mlPredictions[i].cost = Zero
    /\ Greater(report.summary.averageMonthlySpending, Zero)
    /\ report.predictions.totalCost =
            Fill(3, report.summary.averageMonthlySpending)

\* C3, as the specification states it: metadata.modelType is
\* "neural-network" exactly when the totals of step 5 were taken from the
\* regression output.  The code sets it from mlPredictions being non-null
\* (line 1050), so a regression output none of whose values is positive is
\* reported as "neural-network" although smoothing produced the totals.
C3_ModelTypeIffRegression ==
    pc = "done" =>
        (report.metadata.modelType = "neural-network" <=> step5 = "regression")

\* C4: analyzeFinances fails with a no-data error only; when training or
\* inference raises, it still returns a complete report, the totals of
\* step 5 are those of predictWithSmoothing (passed through the degenerate-
\* data guard of step 6 like any other) and metadata.modelType is
\* "statistical".
C4_MLFailureIsSwallowed ==
    /\ pc = "failed" => error \in NoDataErrors
    /\ mlRaised =>
        /\ pc = "done"
        /\ report.returned
        /\ DOMAIN report = ReportFields
        /\ step5 = "smoothing"
        /\ LET months == SortedKeys(DOMAIN monthlyData)
               avgCost == report.summary.averageMonthlySpending
               avgRevenue == report.summary.averageMonthlyRevenue
           IN  /\ report.predictions.totalCost =
                      DegenerateGuard(
                          predictWithSmoothing(TotalCosts(monthlyData, months),
                                               3, Alpha, avgCost), avgCost)
               /\ report.predictions.totalRevenue =
                      DegenerateGuard(
                          predictWithSmoothing(TotalRevenues(monthlyData, months),
                                               3, Alpha, avgRevenue), avgRevenue)
        /\ report.metadata.modelType = "statistical"

C4_Witness ==
    /\ mlRaised
    /\ pc = "done"
    /\ Len(transactions.list) >= 5
    /\ report.metadata.modelType = "statistical"

\* C8: in a returned report, predictions.totalCost, predictions.totalRevenue
\* and every per-category cost or revenue forecast has exactly 3 values, none
\* of them negative.
C8_ForecastsNonNegative ==
    pc = "done" =>
        LET p == report.predictions
        IN  /\ IsForecast(p.totalCost)
            /\ IsForecast(p.totalRevenue)
            /\ \A c \in DOMAIN p.costs : IsForecast(p.costs[c])
            /\ \A c \in DOMAIN p.revenue : IsForecast(p.revenue[c])

\* the regression output was used with a clamped value in it, and the net
\* balance is negative in some month
C8_Witness ==
    /\ pc = "done"
    /\ step5 = "regression"
    /\ \E i \in 1..3 : mlPredictions[i].revenue = Zero
    /\ \E i \in 1..3 : Less(report.predictions.netBalance[i], Zero)
    /\ DOMAIN report.predictions.costs = {"Food", "Other"}

-----------------------------------------------------------------------------
(* Properties of extractFeatures *)

RECURSIVE SumOver(_, _)
SumOver(S, f) ==
    IF S = {} THEN 0
    ELSE LET x == CHOOSE y \in S : TRUE IN f[x] + SumOver(S \ {x}, f)

\* the coerced amounts of the transactions at the positions in S
AmountsAt(txs, S) == SumOver(S, [i \in S |-> AmountOf(txs[i])])

Parseable(txs) == {i \in DOMAIN txs : txs[i].date # 0}
MonthCosts(md) == SumOver(DOMAIN md, [m \in DOMAIN md |-> md[m].cost])
MonthRevenues(md) == SumOver(DOMAIN md, [m \in DOMAIN md |-> md[m].revenue])

\* C5, as the specification states it: with at least one parseable date, the
\* month costs add up to the amounts of all transactions of type cost and
\* the month revenues to the amounts of all transactions of type revenue.
C5_TotalsOverAllTransactions ==
    (ex.pc = "returned" /\ Parseable(ex.transactions) # {}) =>
        /\ MonthCosts(ex.result.monthlyData) =
              AmountsAt(ex.transactions,
                        {i \in DOMAIN ex.transactions :
                            ex.transactions[i].type = "cost"})
        /\ MonthRevenues(ex.result.monthlyData) =
              AmountsAt(ex.transactions,
                        {i \in DOMAIN ex.transactions :
                            ex.transactions[i].type = "revenue"})

\* C5: with at least one parseable date, the month costs add up to the
\* coerced amounts of the transactions of type cost that have a parseable
\* date, and the month revenues to the coerced amounts of the transactions
\* of any other type that have a parseable date.
C5_TotalsOverParseable ==
    (ex.pc = "returned" /\ Parseable(ex.transactions) # {}) =>
        /\ MonthCosts(ex.result.monthlyData) =
              AmountsAt(ex.transactions,
                        {i \in Parseable(ex.transactions) :
                            ex.transactions[i].type = "cost"})
        /\ MonthRevenues(ex.result.monthlyData) =
              AmountsAt(ex.transactions,
                        {i \in Parseable(ex.transactions) :
                            ex.transactions[i].type # "cost"})

\* two costs of the same month were added up
C5_Witness ==
    /\ ex.pc = "returned"
    /\ Len(ex.transactions) = 2
    /\ \A i \in 1..2 : ex.transactions[i] = Tx(1, "cost", "Food", Amount(2))
    /\ MonthCosts(ex.result.monthlyData) = 4

NameOf(category) == IF category = "" THEN "Other" ELSE category

Occurrences(cats, category) == Cardinality({i \in DOMAIN cats : cats[i] = category})

\* C6, as the specification states it: the returned list holds the category
\* of every transaction of the input (a missing one as "Other") exactly
\* once, and nothing else.
C6_CategoriesOfAllTransactions ==
    ex.pc = "returned" =>
        /\ Range(ex.result.categories) =
              {NameOf(ex.transactions[i].category) : i \in DOMAIN ex.transactions}
        /\ \A c \in Range(ex.result.categories) :
              Occurrences(ex.result.categories, c) = 1

\* C6: the returned list holds the category of every transaction that has a
\* parseable date (a missing one as "Other") exactly once, and nothing else.
C6_CategoriesOfParseable ==
    ex.pc = "returned" =>
        /\ Range(ex.result.categories) =
              {NameOf(ex.transactions[i].category) :
                  i \in Parseable(ex.transactions)}
        /\ \A c \in Range(ex.result.categories) :
              Occurrences(ex.result.categories, c) = 1

\* a missing category and an explicit "Other" are listed as one
C6_Witness ==
    /\ ex.pc = "returned"
    /\ Len(ex.transactions) = 2
    /\ Parseable(ex.transactions) = {1, 2}
    /\ ex.transactions[1].category = ""
    /\ ex.transactions[2].category = "Other"
    /\ ex.result.categories = <<"Other">>

\* C7, as the specification states it: every month total and every
\* month/category sub-total that extractFeatures returns is >= 0.
C7_TotalsNonNegative ==
    ex.pc = "returned" =>
        \A m \in DOMAIN ex.result.monthlyData :
            LET month == ex.result.monthlyData[m]
            IN  /\ month.cost >= 0
                /\ month.revenue >= 0
                /\ \A c \in DOMAIN month.categories :
                      /\ month.categories[c].cost >= 0
                      /\ month.categories[c].revenue >= 0

\* the transactions that add to the bucket of category c in month m on the
\* cost side (cost = TRUE) or on the revenue side
AddingTo(txs, m, c, cost) ==
    {i \in Parseable(txs) : /\ MonthKey(txs[i].date) = m
                            /\ NameOf(txs[i].category) = c
                            /\ (txs[i].type = "cost") = cost}

\* C24: every transaction with a parseable date adds its amount to the
\* bucket of its month and, inside it, to the bucket of its category, on the
\* cost side when its type is "cost" and on the revenue side otherwise;
\* there are no other months and buckets, those without a parseable date
\* add nowhere, and the cost and the revenue of a month are the sums over
\* its category buckets.
C24_OneMonthOneCategory ==
    ex.pc = "returned" =>
        LET txs == ex.transactions
            md == ex.result.monthlyData
        IN  /\ DOMAIN md = {MonthKey(txs[i].date) : i \in Parseable(txs)}
            /\ \A m \in DOMAIN md :
                  LET buckets == md[m].categories
                  IN  /\ DOMAIN buckets =
                            {NameOf(txs[i].category) :
                                i \in {j \in Parseable(txs) :
                                          MonthKey(txs[j].date) = m}}
                      /\ \A c \in DOMAIN buckets :
                            /\ buckets[c].cost =
                                  AmountsAt(txs, AddingTo(txs, m, c, TRUE))
                            /\ buckets[c].revenue =
                                  AmountsAt(txs, AddingTo(txs, m, c, FALSE))
                      /\ md[m].cost =
                            SumOver(DOMAIN buckets,
                                    [c \in DOMAIN buckets |-> buckets[c].cost])
                      /\ md[m].revenue =
                            SumOver(DOMAIN buckets,
                                    [c \in DOMAIN buckets |->
                                        buckets[c].revenue])

\* a cost and a transfer of the same month in two categories
C24_Witness ==
    /\ ex.pc = "returned"
    /\ ex.transactions = <<Tx(1, "cost", "Food", Amount(2)),
                           Tx(1, "transfer", "", Amount(2))>>
    /\ ex.result.monthlyData[MonthKey(1)].cost = 2
    /\ ex.result.monthlyData[MonthKey(1)].revenue = 2
    /\ ex.result.monthlyData[MonthKey(1)].categories["Other"].revenue = 2

-----------------------------------------------------------------------------
(* Properties of predictWithSmoothing *)

PeriodsOf(call) == IF call.periods = Undefined THEN 3 ELSE call.periods[1]

PositiveAt(values) == {i \in DOMAIN values : Greater(values[i], Zero)}

C10_CopiesOfSinglePositive ==
    (sm.pc = "returned" /\ Cardinality(PositiveAt(sm.values)) = 1) =>
        \A i \in PositiveAt(sm.values) :
            sm.result = Fill(PeriodsOf(sm), sm.values[i])

\* the positive value is the last of three
C10_Witness ==
    /\ sm.pc = "returned"
    /\ sm.values = <<Zero, Zero, Num(3)>>
    /\ sm.periods = Undefined
    /\ sm.fallbackAverage = Num(2)
    /\ sm.result = <<Num(3), Num(3), Num(3)>>

\* the strictly positive values of a series, by their positions
PositivePositions(values) == {i \in DOMAIN values : Greater(values[i], Zero)}

RECURSIVE SumAt(_, _)
SumAt(values, set) ==
    IF set = {} THEN Zero
    ELSE LET i == CHOOSE i \in set : TRUE
         IN  Add(values[i], SumAt(values, set \ {i}))

\* avg: the mean of the strictly positive values
PositiveMean(values) ==
    Mul(SumAt(values, PositivePositions(values)),
        Frac(1, Cardinality(PositivePositions(values))))

\* the mean of the consecutive differences of the last min(6, len) values,
\* clamped to [-0.2 avg, +0.2 avg]
StatedTrendFactor(values) ==
    LET n == Len(values)
        first == IF n > 6 THEN n - 5 ELSE 1
        differences == [i \in first..(n - 1) |-> Sub(values[i + 1], values[i])]
        mean == Mul(SumAt(differences, DOMAIN differences), Frac(1, n - first))
        bound == Mul(Frac(2, 10), PositiveMean(values))
    IN  IF Less(mean, Neg(bound)) THEN Neg(bound)
        ELSE IF Greater(mean, bound) THEN bound
        ELSE mean

\* C23: for a series with at least two strictly positive values,
\* prediction i (from 0) is max(0, forecast + trendFactor * (i + 1)), the
\* trend factor being the mean of the consecutive differences of the last
\* min(6, len) values clamped to +-0.2 avg, and two consecutive predictions
\* differ by at most 0.2 avg.
C23_TrendFactor ==
    (sm.pc = "returned" /\ Cardinality(PositivePositions(sm.values)) >= 2) =>
        LET avg == PositiveMean(sm.values)
            forecast == Forecast(Smooth(sm.values, sm.alpha, 2, sm.values[1]),
                                 avg)
            trendFactor == StatedTrendFactor(sm.values)
            bound == Mul(Frac(2, 10), avg)
        IN  /\ Len(sm.result) = 3
            /\ \A i \in 1..3 :
                  sm.result[i] =
                      Max(Zero, Add(forecast, Mul(trendFactor, Num(i))))
            /\ \A i \in 1..2 :
                  /\ ~Greater(Sub(sm.result[i + 1], sm.result[i]), bound)
                  /\ ~Greater(Sub(sm.result[i], sm.result[i + 1]), bound)

\* a rise before the last 6 values does not count, a fall within them is
\* limited to 0.2 avg per period, and a prediction does not go below 0
C23_Witness ==
    /\ sm.pc = "returned"
    /\ sm.values = <<Num(1), Num(4), Num(4), Num(4), Num(4), Num(4), Zero>>
    /\ Sub(sm.result[1], sm.result[2]) = Mul(Frac(2, 10), Frac(21, 6))
    /\ sm.result[3] = Zero

-----------------------------------------------------------------------------
(* More properties of analyzeFinances *)

MonthsOf(md) == SortedKeys(DOMAIN md)

\* C11: with fewer than 3 months in the month map, buildAndTrainModel
\* returns null: nothing raises, no model is built and nothing is
\* allocated, and the totals of the report are those of predictWithSmoothing
\* on the monthly totals.
C11_FewMonthsNoModel ==
    (pc \in {"training", "abandoned", "done"} /\ Len(MonthsOf(monthlyData)) < 3)
    => /\ model = NoModel
       /\ allocated = {}
       /\ ~mlRaised
       /\ pc = "done" =>
            /\ mlPredictions = Null
            /\ step5 = "smoothing"
            /\ report.predictions.totalCost =
                  predictWithSmoothing(
                      TotalCosts(monthlyData, MonthsOf(monthlyData)), 3, Alpha,
                      report.summary.averageMonthlySpending)
            /\ report.predictions.totalRevenue =
                  predictWithSmoothing(
                      TotalRevenues(monthlyData, MonthsOf(monthlyData)), 3,
                      Alpha, report.summary.averageMonthlyRevenue)

C11_Witness ==
    /\ pc = "done"
    /\ Len(MonthsOf(monthlyData)) = 2
    /\ model = NoModel
    /\ mlPredictions = Null
    /\ report.predictions.totalCost = <<Num(2), Num(2), Num(2)>>
    /\ report.predictions.totalRevenue = <<Zero, Zero, Zero>>

\* C13: for the "Markets" scenario, predictions.costs["Markets"] is what
\* predictWithSmoothing gives for the series 100, 120, 110, 130 with the
\* category average 115 as fallback, that is 124.04, 134.04, 144.04, each
\* strictly between 0 and 300.
C13_MarketsScenario ==
    (pc = "done" /\ transactions = MarketsScenario) =>
        LET forecast == report.predictions.costs["Markets"]
        IN  /\ DOMAIN report.predictions.costs = {"Markets"}
            /\ forecast = predictWithSmoothing(
                              <<Num(100), Num(120), Num(110), Num(130)>>, 3,
                              Frac(3, 10), Num(115))
            /\ forecast = <<Frac(12404, 100), Frac(13404, 100), Frac(14404, 100)>>
            /\ \A i \in 1..3 : Greater(forecast[i], Zero)
                                /\ Less(forecast[i], Num(300))
            /\ step5 = "smoothing"

C13_Witness ==
    /\ pc = "done"
    /\ transactions = MarketsScenario
    /\ report.metadata.monthsAnalyzed = 4
    /\ report.predictions.costs["Markets"][1] = Frac(12404, 100)

\* the report of one invocation run on its own on txs, the network
\* answering raw (or the regression step raising)
RunAlone(txs, raw, raised) ==
    LET f == extractFeatures(txs)
        mlp == IF raised \/ ~Trains(f.monthlyData) THEN Null
               ELSE [k \in 1..3 |-> [cost |-> Clamp(raw[k][1]),
                                     revenue |-> Clamp(raw[k][2])]]
    IN  Analysis(txs, f.monthlyData, f.categories, mlp)

\* C14: of two invocations whose steps interleave, each holds the month
\* map and the categories of its own transaction list, and returns the
\* report it returns when run alone on that list.
C14_CallsAreIndependent ==
    \A i \in CallIds :
        /\ calls[i].pc # "idle" =>
              /\ calls[i].monthlyData =
                    extractFeatures(calls[i].transactions).monthlyData
              /\ calls[i].categories =
                    extractFeatures(calls[i].transactions).categories
        /\ calls[i].pc = "done" =>
              calls[i].report = RunAlone(calls[i].transactions, calls[i].raw,
                                         calls[i].raised)

\* both invocations returned, each ran while the other was in flight, and
\* their reports differ
C14_Witness ==
    /\ \A i \in CallIds : calls[i].pc = "done" /\ calls[i].met
    /\ Len(calls[1].raw) = 3
    /\ Len(calls[2].raw) = 3
    /\ calls[1].transactions # calls[2].transactions
    /\ calls[1].report # calls[2].report

\* C15: analyzeFinances hands out a report only by returning it, and the
\* report stored before it started is in localStorage unchanged at every
\* point of the analysis: after a no-data error, after the regression step
\* raised, and when the analysis was abandoned while training.
C15_StoredReportUntouched ==
    /\ pc # "done" => report = NoReport
    /\ cache.item = <<<<"content", "a">>, <<"analyzedAt", 0>>>>
    /\ loadAnalysis(cache) = <<Stored("a", <<0>>)>>

C15_Witness ==
    /\ pc = "abandoned"
    /\ Len(transactions.list) >= 5
    /\ report = NoReport
    /\ loadAnalysis(cache) = <<Stored("a", <<0>>)>>

\* C16, as the specification states it: when analyzeFinances has finished,
\* with or without a raise in training or inference, no tensor and no model
\* is left allocated.  The code disposes the tensors and the model on the
\* success path only (lines 802-803, 839-840 and 928), with no finally.
C16_EverythingDisposed ==
    pc \in {"done", "failed"} => allocated = {}

\* the total of the report is the series chosen at step 5, or 3 copies of
\* the average when that series is all zero and the average is positive
TotalIs(total, chosen, avg) ==
    IF AllZero(chosen) /\ Greater(avg, Zero) THEN total = Fill(3, avg)
    ELSE total = chosen

\* C20: the totals of step 5 are the regression output exactly when there is
\* one and at least one of its 6 values is positive; otherwise both are what
\* predictWithSmoothing gives for the monthly cost and revenue totals with
\* the overall monthly averages as fallback.
C20_TotalsSelection ==
    pc = "done" =>
        LET positive == /\ mlPredictions # Null
                        /\ \E i \in 1..3 :
                              \/ Greater(mlPredictions[i].cost, Zero)
                              \/ Greater(mlPredictions[i].revenue, Zero)
            months == MonthsOf(monthlyData)
            avgCost == report.summary.averageMonthlySpending
            avgRevenue == report.summary.averageMonthlyRevenue
        IN  /\ step5 = "regression" <=> positive
            /\ IF positive
               THEN /\ TotalIs(report.predictions.totalCost,
                               [i \in 1..3 |-> mlPredictions[i].cost], avgCost)
                    /\ TotalIs(report.predictions.totalRevenue,
                               [i \in 1..3 |-> mlPredictions[i].revenue],
                               avgRevenue)
               ELSE /\ TotalIs(report.predictions.totalCost,
                               predictWithSmoothing(
                                   TotalCosts(monthlyData, months), 3,
                                   Frac(3, 10), avgCost), avgCost)
                    /\ TotalIs(report.predictions.totalRevenue,
                               predictWithSmoothing(
                                   TotalRevenues(monthlyData, months), 3,
                                   Frac(3, 10), avgRevenue), avgRevenue)

\* a regression output with positive and clamped values is used as it is
C20_Witness ==
    /\ pc = "done"
    /\ step5 = "regression"
    /\ mlPredictions[1] = [cost |-> Num(2), revenue |-> Zero]
    /\ mlPredictions[2] = [cost |-> Zero, revenue |-> Num(2)]
    /\ report.predictions.totalCost = [i \in 1..3 |-> mlPredictions[i].cost]
    /\ report.predictions.totalRevenue =
          [i \in 1..3 |-> mlPredictions[i].revenue]

-----------------------------------------------------------------------------
(* Properties of buildAndTrainModel *)

\* the cost and the revenue of month i of SpecTrain, as the network gets them
ScaledPair(costs, i) == <<Frac(costs[i], 1000), Frac(10 + i, 1000)>>

RECURSIVE PairsOf(_, _, _)
PairsOf(costs, i, j) ==
    IF i > j THEN <<>> ELSE ScaledPair(costs, i) \o PairsOf(costs, i + 1, j)

\* C25: with n >= 3 months and w = min(3, n - 1), there are n - w training
\* examples, example k made of the (cost, revenue) pairs of the months
\* k .. k + w - 1 in sorted order with the pair of month k + w as target;
\* the model is trained exactly when there are 2 examples or more, so not
\* for 3 and not for 4 months (and not below 3, line 748).
C25_TrainingExamples ==
    st.pc = "prepared" =>
        LET n == Len(st.costs)
            w == IF n - 1 < 3 THEN n - 1 ELSE 3
        IN  /\ n >= 3 =>
                  /\ Len(st.xs) = n - w
                  /\ Len(st.ys) = n - w
                  /\ \A k \in 1..(n - w) :
                        /\ st.xs[k] = PairsOf(st.costs, k, k + w - 1)
                        /\ st.ys[k] = ScaledPair(st.costs, k + w)
                  /\ st.trains <=> n - w >= 2
            /\ n \in {1, 2, 3, 4} => ~st.trains

\* 5 months give the 2 examples a training needs, 4 months give 1
C25_Witness ==
    /\ st.pc = "prepared"
    /\ st.costs = <<1, 2, 1, 2, 2>>
    /\ st.trains
    /\ Len(st.xs) = 2
    /\ Len(st.xs[1]) = 6

\* C26: a model is only ever built from 5 months or more and then takes 6
\* input values (windowSize 3); the window generateMLPredictions feeds it
\* has 6 values in each of the 3 rounds, the size the model was trained on.
C26_WindowMatchesModel ==
    /\ model.built =>
          /\ model.inputSize = 6
          /\ Cardinality(DOMAIN monthlyData) >= 5
    /\ pc = "predicting" =>
          /\ model.built
          /\ Len(lastWindow) = 6
          /\ Len(lastWindow) = model.inputSize

\* the third round, on a history of 5 months
C26_Witness ==
    /\ pc = "predicting"
    /\ Cardinality(DOMAIN monthlyData) = 5
    /\ Len(predictions) = 2
    /\ Len(lastWindow) = 6
    /\ model.inputSize = 6

-----------------------------------------------------------------------------
(* Properties of calculateStatistics *)

\* the last min(3, n) values of a series
LastThree(costs) ==
    SubSeq(costs, IF Len(costs) > 3 THEN Len(costs) - 2 ELSE 1, Len(costs))

SumFromTo(w, i, j) == SumOver(i..j, [x \in i..j |-> w[x]])

\* the trend the specification gives for a series of monthly costs; with h
\* values of sum a in the first half and g of sum b in the second,
\* b/g > 1.1 a/h is 10 b h > 11 a g, and b/g < 0.9 a/h is 10 b h < 9 a g
StatedTrend(costs) ==
    IF Len(costs) < 2 THEN "stable"
    ELSE LET w == LastThree(costs)
             h == (Len(w) + 1) \div 2
             g == Len(w) - h
             a == SumFromTo(w, 1, h)
             b == SumFromTo(w, h + 1, Len(w))
         IN  IF 10 * b * h > 11 * a * g THEN "increasing"
             ELSE IF 10 * b * h < 9 * a * g THEN "decreasing"
             ELSE "stable"

\* C12: the trend calculateStatistics returns is the one stated from the
\* costs of the last min(3, n) months in chronological order, split in a
\* first half of ceil(k/2) values and the rest, with the thresholds 1.1 and
\* 0.9 compared strictly; the costs 100, 100, 100, 200, 220 give increasing.
C12_TrendClassification ==
    st.pc = "returned" =>
        /\ st.trend = StatedTrend(st.costs)
        /\ st.costs = <<100, 100, 100, 200, 220>> => st.trend = "increasing"

C12_Witness ==
    /\ st.pc = "returned"
    /\ st.costs = <<100, 100, 100, 200, 220>>
    /\ st.trend = "increasing"

-----------------------------------------------------------------------------
(* Properties of the report cache *)

\* C17: hasRecentAnalysis answers true exactly when a report is stored (the
\* last one saved, not cleared since), it carries metadata.analyzedAt and
\* fewer than 24 hours have passed since; loadAnalysis answers the report
\* saved last, and null after clearAnalysis or when nothing was saved.
C17_CacheFreshness ==
    LET fresh == /\ cache.saved # <<>>
                 /\ cache.saved[1].metadata.analyzedAt # <<>>
                 /\ cache.now - cache.saved[1].metadata.analyzedAt[1] < 24
    IN  /\ hasRecentAnalysis(cache) <=> fresh
        /\ loadAnalysis(cache) = cache.saved
        /\ cache.result.of = "hasRecentAnalysis" => (cache.result.value <=> fresh)
        /\ cache.result.of = "loadAnalysis" => cache.result.value = cache.saved

\* exactly 24 hours after the report was made it is not recent any more
C17_Witness ==
    /\ cache.result.of = "hasRecentAnalysis"
    /\ cache.result.value = FALSE
    /\ cache.saved = <<Stored("b", <<0>>)>>
    /\ cache.now = 24

-----------------------------------------------------------------------------
(* Properties of the App component *)

\* what the transactions of a set add to a balance
RECURSIVE Effect(_)
Effect(set) ==
    IF set = {} THEN 0
    ELSE LET t == CHOOSE t \in set : TRUE
         IN  Applied(0, t) + Effect(set \ {t})

\* C18, as the specification states it: after any sequence of
\* addTransaction, deleteTransaction and sweeps run one after another, the
\* stored balance of every card is its opening balance plus the revenue and
\* minus the cost of its stored transactions with isAffect = true; those
\* with isAffect = false contribute nothing.
C18_BalanceIsOpeningPlusApplied ==
    app.pc = "ready" =>
        \A id \in DOMAIN app.balance :
            app.balance[id] =
                app.opening[id]
                + Effect({t \in app.txs : t.cardId = id /\ t.isAffect})

\* transaction id is stored, scheduled, not yet applied, and its date is here
Waiting(id) ==
    \E t \in app.txs : t.id = id /\ t.scheduled /\ ~t.isAffect /\ t.date <= app.now

\* transaction id is stored with isAffect = true
Marked(id) == \E t \in app.txs : t.id = id /\ t.isAffect

Deleted(id) == \A t \in app.txs : t.id # id

\* the scheduled transactions of card id that this step marks
MarkedNow(id) ==
    {t \in app.txs : /\ t.cardId = id
                     /\ t.scheduled
                     /\ ~t.isAffect
                     /\ [t EXCEPT !.isAffect = TRUE] \in app'.txs}

\* while the interval keeps firing, a scheduled transaction whose date has
\* arrived is eventually marked isAffect = true, unless it is deleted
EventuallyMarked ==
    \A id \in 1..MaxAppTx : Waiting(id) ~> (Marked(id) \/ Deleted(id))

\* no scheduled transaction is marked before its date
NeverMarkedEarly ==
    \A t \in app.txs : t.scheduled /\ t.isAffect => t.date <= app.now

\* the step that marks scheduled transactions of a card adds their amounts
\* to the stored balance of the card
AmountsApplied ==
    \A id \in DOMAIN app.balance :
        MarkedNow(id) # {} =>
            app'.balance[id] = app.balance[id] + Effect(MarkedNow(id))

\* C19, as the specification states it: while the sweep keeps firing, every
\* stored scheduled transaction is, once its date has arrived, eventually
\* marked isAffect = true and its amount applied to the balance of its
\* card, also for a card added after the timer was started; before its
\* date it is not marked.
C19_ScheduledEventuallyApplied ==
    /\ EventuallyMarked
    /\ []NeverMarkedEarly
    /\ [][AmountsApplied]_vars

-----------------------------------------------------------------------------
(* Properties of getCategoryTrend and getRecommendation *)

\* the series of a category with the months lacking it counted as 0
CountedCosts(costs) == [i \in DOMAIN costs |-> CostIn(costs, i)]

\* the rule of the overall trend with the thresholds p/100 and q/100: with
\* h values of sum a in the first half and g of sum b in the second,
\* b/g > (p/100) a/h is 100 b h > p a g
TrendWith(costs, p, q) ==
    IF Len(costs) < 2 THEN "stable"
    ELSE LET w == LastThree(costs)
             h == (Len(w) + 1) \div 2
             g == Len(w) - h
             a == SumFromTo(w, 1, h)
             b == SumFromTo(w, h + 1, Len(w))
         IN  IF 100 * b * h > p * a * g THEN "up"
             ELSE IF 100 * b * h < q * a * g THEN "down"
             ELSE "stable"

HeldMonths(costs) == {i \in DOMAIN costs : costs[i] # NoCategory}

\* the sum of the costs of the category (its average cost is this sum over
\* the number of months that hold it, its average revenue st.revenue)
FoodCost(costs) == SumOver(DOMAIN costs, CountedCosts(costs))

\* whether the average cost of a category of the breakdown exceeds its
\* average revenue, and whether it has revenue at all
CostExceedsRevenue(c) ==
    IF c = "Rent" THEN TRUE
    ELSE FoodCost(st.costs) > st.revenue * Cardinality(HeldMonths(st.costs))
HasRevenue(c) == c = "Food" /\ st.revenue > 0

\* C22, as the specification states it: up gives the budget-limit
\* suggestion, otherwise down the positive reinforcement, otherwise an
\* average cost above the average revenue, also for a category without any
\* revenue, the expense-review warning, otherwise the stability statement.
C22_RecommendationAsStated ==
    st.pc = "returned" =>
        \A c \in DOMAIN st.result :
            st.result[c].recommendation =
                IF st.result[c].predictedTrend = "up" THEN "budget-limit"
                ELSE IF st.result[c].predictedTrend = "down" THEN "good-job"
                ELSE IF CostExceedsRevenue(c) THEN "review-expenses"
                ELSE "stable"

\* C22, amended: the expense-review warning needs a positive average
\* revenue; a category without revenue and without a rising or falling
\* trend gets the stability statement.
C22_RecommendationPrecedence ==
    st.pc = "returned" =>
        \A c \in DOMAIN st.result :
            st.result[c].recommendation =
                IF st.result[c].predictedTrend = "up" THEN "budget-limit"
                ELSE IF st.result[c].predictedTrend = "down" THEN "good-job"
                ELSE IF CostExceedsRevenue(c) /\ HasRevenue(c)
                     THEN "review-expenses"
                ELSE "stable"

\* a category with cost above its revenue gets the warning, one without
\* revenue the stability statement
C22_Witness ==
    /\ st.pc = "returned"
    /\ st.costs = << <<100>>, <<100>> >>
    /\ st.revenue = 95
    /\ st.result["Food"].recommendation = "review-expenses"
    /\ st.result["Rent"].recommendation = "stable"

\* every handler taking part has run to its end
AllDone == app.pc = "race" /\ \A p \in Taking(app) : app.ops[p].pc = "done"

\* C27, as the specification states it: however the awaits of two
\* overlapping handlers on a card interleave (two sweeps, or a sweep and
\* addTransaction or deleteTransaction), the stored balance in the end is
\* one that the same handlers give when run one after another.
C27_AsIfOneAfterAnother ==
    AllDone => app.balance[1] \in app.serial

\* a step in which another card becomes the selected one: its transactions
\* are loaded and the sweep of line 210 has run
LoadsCard == app.pc = "ready" /\ app'.selectedCardId # app.selectedCardId

\* C28, as the specification states it: when loadTransactions for a newly
\* selected card has completed, with the sweep it triggers, the local list
\* is the list fetched for that card, the matured transactions marked, and
\* never the list that was in state before the load.
C28_LoadShowsFetched ==
    [][LoadsCard => app'.transactions = Fetched(app.selectedCardId)']_vars

\* line 41 for the month in the form
MonthExists == LimitExists(app, app.newLimitMonth)

OneEntryPerMonth ==
    app.pc = "modal" =>
        \A i, j \in DOMAIN app.limits :
            app.limits[i].month = app.limits[j].month => i = j

RejectsExistingMonth ==
    handleAddLimit /\ MonthExists /\ app.editingMonth # app.newLimitMonth
        => app'.limits = app.limits

UpdateChangesOneAmount ==
    handleAddLimit /\ MonthExists /\ app.editingMonth = app.newLimitMonth
        => /\ DOMAIN app'.limits = DOMAIN app.limits
           /\ \A i \in DOMAIN app.limits :
                 /\ app'.limits[i].month = app.limits[i].month
                 /\ app'.limits[i].amount =
                        IF app.limits[i].month = app.editingMonth
                        THEN NumberOf(app.newLimitAmount)
                        ELSE app.limits[i].amount

\* C29: in CardLimitModal, CardPlanModal and CardWishModal the list holds at
\* most one entry per month after any sequence of add, start-edit,
\* cancel-edit, update and delete; submitting a month that is in the list
\* while not editing that month leaves the list unchanged; an update in edit
\* mode changes only the amount of the entry of the edited month.
C29_OneEntryPerMonth ==
    /\ []OneEntryPerMonth
    /\ [][RejectsExistingMonth]_vars
    /\ [][UpdateChangesOneAmount]_vars

\* both months are in the list, the second being edited with another amount
\* in the form, after the amount of the first was updated from 5 to 7
C29_Witness ==
    /\ app.pc = "modal"
    /\ app.open
    /\ app.limits = <<[month |-> "2025-01", amount |-> 7],
                      [month |-> "2025-02", amount |-> 5]>>
    /\ app.card = <<[month |-> "2025-01", amount |-> 5]>>
    /\ app.editingMonth = "2025-02"
    /\ app.newLimitAmount = "0"

\* a step that is a call of addTransaction
Called == app.pc = "confirm" /\ app'.turn # app.turn

\* the user declined a dialog of the call
Declined == \E i \in DOMAIN app'.last.dialogs : ~app'.last.dialogs[i].answer

NothingWritten ==
    /\ app'.txs = app.txs
    /\ app'.balance = app.balance
    /\ app'.cards = app.cards
    /\ app'.transactions = app.transactions

BalancesKept ==
    /\ app'.balance = app.balance
    /\ \A i \in DOMAIN app.cards : app'.cards[i].amount = app.cards[i].amount

\* C30: when addTransaction asks for confirmation and the user declines,
\* nothing is written and the cards, the balances and the local list are
\* unchanged; a future-dated transaction never triggers a confirmation and
\* never changes a balance when it is added.
C30_DeclinedWritesNothing ==
    [][Called =>
          /\ Declined => NothingWritten
          /\ app'.last.future => app'.last.dialogs = <<>> /\ BalancesKept]_vars

\* the plan dialog was declined after the limit dialog was accepted, on a
\* card that holds a future-dated transaction added before
C30_Witness ==
    /\ app.pc = "confirm"
    /\ app.last.dialogs = <<[dialog |-> "limit", answer |-> TRUE],
                            [dialog |-> "plan", answer |-> FALSE]>>
    /\ \E t \in app.txs : t.scheduled
    /\ app.balance = [i \in CardIds |-> 10]

=============================================================================
